---- MODULE Spec2Model ----
(***************************************************************************)
(* Z-probe driver and comprehensive delta calibration strategy of          *)
(* Smoothieware (src/src/modules/tools/zprobe/ZProbe.cpp).                 *)
(*                                                                         *)
(* Spec     : one probe cycle after another (run_probe / wait_for_probe in *)
(*            the foreground, acceleration_tick and the step ticker as     *)
(*            interrupts), issued by G30, ZProbe::doProbeAt and            *)
(*            ComprehensiveDeltaStrategy::do_probe_at.                     *)
(* SpecPoll : the same cycles for single probes on machines whose          *)
(*            actuators share one acceleration.                            *)
(* SpecCfg  : the deceleration settings under on_config_reload and G29 D.  *)
(* SpecCal  : G32, endstop trim and delta radius calibration.              *)
(* SpecEntry: SpecCal with the strategy entry points G29 and G31 and       *)
(*            require_clean_geometry.                                      *)
(* SpecGeo  : the geometry facade (setters, getters) and M665.             *)
(* SpecG38  : the straight probe G38.2/G38.3 and its detector read_probe.  *)
(* SpecHalt : the G30 cycles of SpecPoll with the kernel's halt.           *)
(* SpecRT   : the G29 repeatability test, do_probe_at and the config load. *)
(* SpecQueue: the probing commands as steps on the planner queue.          *)
(* SpecRev  : the cycles of SpecPoll with reverse_z either way.             *)
(* SpecAcc  : the cycles of SpecPoll with a Z acceleration of its own.     *)
(* SpecLive : one G30 with decelerate_on_trigger, under fair ticks.        *)
(* SpecMap  : the depth maps of G31 (acquisition and save).                *)
(* SpecTwice: SpecCal with G32 E K after a successful G32 K.               *)
(*                                                                         *)
(* Units.  Distances are whole actuator steps.  Rates are in units of one  *)
(* step per acceleration-tick period: between two acceleration ticks the   *)
(* step ticker runs at most SlotsPerTick times and an actuator whose rate  *)
(* is r steps in the first r of these slots, so that actuators commanded   *)
(* to the same rate step together.                                         *)
(***************************************************************************)
EXTENDS Integers, Sequences, FiniteSets, TLC

X_AXIS == 0
Y_AXIS == 1
Z_AXIS == 2

Axes == {X_AXIS, Y_AXIS, Z_AXIS}

\* ---------------------------------------------------------------- bounds
\* commanded travel of one probe move, in steps (maxz * steps_per_mm)
MaxDist == 3
\* step-ticker slots between two acceleration ticks = the largest rate
SlotsPerTick == 2
\* largest configured debounce_count
MaxDebounce == 1
\* largest configured decelerate_runout * Z_STEPS_PER_MM, in steps
MaxRunout == 1
\* largest configured probe_smoothing of the probe-cycle specification
MaxSmoothing == 2

\* the rate at or below which decelerate() snaps the rate to 0
\* (20.1 steps/s in the source, less than one rate unit of the model)
MinRateFloor == 0

Min(a, b) == IF a < b THEN a ELSE b

\* round-half-up of num/den for num >= 0, den > 0
RoundDiv(num, den) == (2 * num + den) \div (2 * den)

VARIABLES
    \* ---- configuration (on_config_reload, planner, robot)
    is_delta, is_rdelta, decelerate_on_trigger, decelerate_runout,
    debounce_count, reverse_z, steps_per_mm, rate_step, probe_smoothing,
    \* ---- actuators (StepperMotor), step ticker phase, Z position
    stepped, moving, rate, togo, dirn, slot, zpos,
    \* ---- ZProbe motion state shared with acceleration_tick
    running, accelerating, current_feedrate, runout_steps,
    steps_at_decel_end, has_exceeded_runout,
    \* ---- environment
    pin, halted,
    \* ---- foreground: position in the code, locals, the command
    pc, debounce, steps, r, cmd, reverse, rep, sum, outcome,
    \* ---- history of the cycle in progress, and how the last G32 ended
    hist,
    \* ---- the machine as the calibration sees it: the stored endstop trims
    \* ---- and delta radius, and how the probed depths respond to them
    trim, delta_radius, machine,
    \* ---- G32 of the comprehensive delta strategy: position in the code,
    \* ---- the command's words, the locals of the two calibrations
    cpc, keep, hasR, hasE, trimxyz, trimscale, last_deviation, deviation,
    tz, iter, cmm, dlast, es_ok, dr_ok, announced,
    \* ---- geometry: the dirty flag of the strategy, the named parameters
    \* ---- of the arm solution other than R (R is delta_radius), the option
    \* ---- map the strategy keeps, the last facade call and its result, what
    \* ---- each parameter was last set to through the facade, the position
    \* ---- resets performed, the geometry commands so far
    geom_dirty, arm, options, fres, last_set, pos_resets, geo_ops,
    \* ---- strategy entry points: where require_clean_geometry stands, the
    \* ---- entry point running, the flag when it was invoked, whether the
    \* ---- implicit pair has run, whether the entry point has probed
    rcg_phase, entry, entry_dirty, pair_done, own_probed,
    \* ---- straight probe: the flags shared with read_probe, the robot's
    \* ---- compensation transform and its saved copy, position in the code,
    \* ---- the command's subcode and axis word, whether the planned move is
    \* ---- on the actuators, history of the detector during the command
    probing, probe_detected, compensationTransform, savect, gpc, subcode,
    axis, fired, missed, ct_before,
    \* ---- what the command in progress has printed and recorded with
    \* ---- set_last_probe_position, the halt events it raised, and what it
    \* ---- did with the probe after the cycle
    lines, last_probe, halts, did,
    \* ---- G29, the repeatability test: position in the code, the locals
    \* ---- nSamples, i, sample[], mu, min and max, the planner's
    \* ---- acceleration and the strategy's saved copy, the probe cycles and
    \* ---- return moves of the do_probe_at in progress, the accepted
    \* ---- samples and the range reported
    rpc, nSamples, ri, sample, mu, rmin, rmax, acceleration,
    saved_acceleration, cycles, returns, accepted, range,
    \* ---- the planner queue: the planned moves not yet executed, the steps
    \* ---- the command in progress has still to make, whether
    \* ---- probe_from_height is known; the place that started the last
    \* ---- probe cycle, the queue then, whether a wait for the empty queue
    \* ---- had followed the last planned move then, and whether one has now
    queued, todo, pfh_known, probe_q,
    \* ---- G31, the depth map: position in the code, the locals
    \* ---- origin_steps and i of depth_map_print_surface, the two maps, and
    \* ---- the acquisition in progress (the previous map when it started,
    \* ---- the depths it has stored, whether it has failed)
    mpc, origin_steps, mi, cur_depth_map, last_depth_map, acq

cfgVars == <<is_delta, is_rdelta, decelerate_on_trigger, decelerate_runout,
             debounce_count, reverse_z, steps_per_mm, rate_step,
             probe_smoothing>>
actVars == <<stepped, moving, rate, togo, dirn, slot, zpos>>
zpVars  == <<running, accelerating, current_feedrate, runout_steps,
             steps_at_decel_end, has_exceeded_runout>>
envVars == <<pin, halted>>
fgVars  == <<pc, debounce, steps, r, cmd, reverse, rep, sum, outcome>>

geoVars == <<geom_dirty, arm, options, fres, last_set, pos_resets, geo_ops>>
entVars == <<rcg_phase, entry, entry_dirty, pair_done, own_probed>>
g38Vars == <<probing, probe_detected, compensationTransform, savect, gpc,
             subcode, axis, fired, missed, ct_before>>
outVars == <<lines, last_probe, halts, did>>
rtVars  == <<rpc, nSamples, ri, sample, mu, rmin, rmax, acceleration,
             saved_acceleration, cycles, returns, accepted, range>>
queVars == <<queued, todo, pfh_known, probe_q>>
mapVars == <<mpc, origin_steps, mi, cur_depth_map, last_depth_map, acq>>
moreVars == <<rtVars, queVars, mapVars>>
extVars == <<geoVars, entVars, g38Vars, outVars, moreVars>>

calOwn  == <<trim, delta_radius, machine, cpc, keep, hasR, hasE, trimxyz,
             trimscale, last_deviation, deviation, tz, iter, cmm, dlast, es_ok,
             dr_ok, announced>>
calVars == <<calOwn, extVars>>

vars == <<cfgVars, actVars, zpVars, envVars, fgVars, hist, calVars>>

\* ------------------------------------------------------------ StepperMotor
\* The actuator state the handlers read and write, as one record.
HW == [stepped |-> stepped, moving |-> moving, rate |-> rate, togo |-> togo,
       dirn |-> dirn, sade |-> steps_at_decel_end,
       her |-> has_exceeded_runout]

\* StepperMotor::move(dir, n, 0): a new move of n steps, step counter zeroed,
\* speed 0 until set_speed is called; n = 0 leaves the actuator stopped.
Move(h, c, d, n) ==
    [h EXCEPT !.stepped[c] = 0, !.togo[c] = n, !.moving[c] = (n > 0),
              !.rate[c] = 0, !.dirn[c] = d]

\* StepperMotor::move(0, 0), preceded or not by set_speed(0)
StopAxis(h, c) == Move(h, c, FALSE, 0)

\* The actuators that step in step-ticker slot s
Stepping(s) == {c \in Axes : moving[c] /\ rate[c] > s}

\* ---------------------------------------------------------- tick handlers
\* (accelerate without the cap at the target rate)
AccelRate_NoCap(cur, target, inc) == cur + inc

\* ZProbe::accelerate: new commanded rate of an actuator
AccelRate(cur, target, inc) ==
    LET up == IF cur < target THEN Min(target, cur + inc) ELSE cur
    IN  IF up > target THEN target ELSE up

Accelerate(h, c) ==
    [h EXCEPT !.rate[c] = AccelRate(h.rate[c], current_feedrate, rate_step[c])]

\* ZProbe::decelerate, the rate after one decrement
DecelRate(cur, dec) ==
    IF cur > 0
    THEN (IF cur - dec <= MinRateFloor THEN 0 ELSE cur - dec)
    ELSE cur

\* ZProbe::decelerate, the runout test
OverRunout(st, limit) == st >= limit

\* (decelerate setting the speed to 0 without ending the move)
Decelerate_KeepsMoving(h, c) ==
    LET st == h.stepped[c]
        nr == DecelRate(h.rate[c], rate_step[c])
    IN  IF OverRunout(st, runout_steps)
        THEN [StopAxis(h, c) EXCEPT !.sade = st, !.her = TRUE]
        ELSE [h EXCEPT !.rate[c] = nr]

\* ZProbe::decelerate: the runout test, then the decrement and the stop
Decelerate(h, c) ==
    LET st == h.stepped[c]
        nr == DecelRate(h.rate[c], rate_step[c])
    IN  IF OverRunout(st, runout_steps)
        THEN [StopAxis(h, c) EXCEPT !.sade = st, !.her = TRUE]
        ELSE IF nr = 0
             THEN [StopAxis(h, c) EXCEPT !.sade = st]
             ELSE [h EXCEPT !.rate[c] = nr]

TickAxis(h, c) ==
    IF ~h.moving[c] THEN h
    ELSE IF accelerating THEN Accelerate(h, c) ELSE Decelerate(h, c)

IsDeltaKin == is_delta \/ is_rdelta

\* ZProbe::acceleration_tick: Z, then X and Y on delta machines
AccelerationTick(h) ==
    IF ~running THEN h
    ELSE LET hz == TickAxis(h, Z_AXIS)
         IN  IF IsDeltaKin
             THEN TickAxis(TickAxis(hz, X_AXIS), Y_AXIS)
             ELSE hz

SetHW(h) ==
    /\ stepped' = h.stepped
    /\ moving' = h.moving
    /\ rate' = h.rate
    /\ togo' = h.togo
    /\ dirn' = h.dirn
    /\ steps_at_decel_end' = h.sade
    /\ has_exceeded_runout' = h.her

\* The actuators acceleration_tick processes
TickedAxes == IF IsDeltaKin THEN Axes ELSE {Z_AXIS}

\* The acceleration ticker's interrupt: it comes when every step due in the
\* period that ends has been emitted
AccelTick ==
    /\ Stepping(slot) = {}
    /\ SetHW(AccelerationTick(HW))
    /\ slot' = 0
    /\ UNCHANGED <<cfgVars, zpos, running, accelerating, current_feedrate,
                   runout_steps, envVars, fgVars, hist>>
    /\ UNCHANGED calVars

\* The step ticker's interrupt: every actuator whose rate reaches this slot
\* emits one step; an actuator that has emitted its last step has finished.
\* zpos is the Z actuator's displacement since the cycle started in the
\* planner's machine coordinates: a step in direction true (the direction of
\* a probe with neither reverse_z nor the reverse request) decreases Z, and
\* the relative move of return_probe increases it.
StepTick ==
    /\ Stepping(slot) # {}
    /\ slot' = slot + 1
    /\ stepped' = [c \in Axes |->
                     IF c \in Stepping(slot) THEN stepped[c] + 1 ELSE stepped[c]]
    /\ togo' = [c \in Axes |->
                     IF c \in Stepping(slot) THEN togo[c] - 1 ELSE togo[c]]
    /\ moving' = [c \in Axes |->
                     IF c \in Stepping(slot) THEN togo[c] > 1 ELSE moving[c]]
    /\ rate' = [c \in Axes |->
                     IF c \in Stepping(slot) /\ togo[c] = 1 THEN 0 ELSE rate[c]]
    /\ zpos' = IF Z_AXIS \in Stepping(slot)
               THEN (IF dirn[Z_AXIS] THEN zpos - 1 ELSE zpos + 1)
               ELSE zpos
    /\ UNCHANGED <<cfgVars, dirn, zpVars, envVars, fgVars, hist>>
    /\ UNCHANGED calVars

\* ------------------------------------------------------------ environment
\* The places of the foreground code where the next thing it reads is the pin
PinRead == {"idle", "run_probe", "wfp_poll"}

\* The probe switch opens or closes
PinFlip ==
    /\ pc \in PinRead
    /\ pin' = ~pin
    /\ UNCHANGED <<cfgVars, actVars, zpVars, halted, fgVars, hist>>
    /\ UNCHANGED calVars

\* no endstop calibration has returned yet
NoFirst == [ok |-> FALSE, trim |-> [c \in Axes |-> 0]]

NoHist == [activeReads |-> 0, setAt |-> 0, iters |-> 0, runs |-> 0,
           haltYield |-> FALSE, first |-> NoFirst]

\* ------------------------------------------------------------ the commands
\* on_gcode_received, G29..G32: refused when the pin reads active
PinGate == ~pin

\* G30 [R]
StartG30 ==
    /\ pc = "idle"
    /\ PinGate
    /\ \E rv \in BOOLEAN : reverse' = rv
    /\ cmd' = "G30"
    /\ pc' = "run_probe"
    /\ UNCHANGED <<cfgVars, actVars, zpVars, envVars, debounce, steps, r,
                   rep, sum, outcome, hist>>
    /\ UNCHANGED calVars

\* a levelling strategy calling ZProbe::doProbeAt
StartDoProbeAt ==
    /\ pc = "idle"
    /\ PinGate
    /\ cmd' = "doProbeAt"
    /\ pc' = "run_probe"
    /\ UNCHANGED <<cfgVars, actVars, zpVars, envVars, debounce, steps, r,
                   reverse, rep, sum, outcome, hist>>
    /\ UNCHANGED calVars

\* the comprehensive delta strategy calling do_probe_at
StartDoProbeAtCDS ==
    /\ pc = "idle"
    /\ PinGate
    /\ cmd' = "do_probe_at"
    /\ pc' = "run_probe"
    /\ UNCHANGED <<cfgVars, actVars, zpVars, envVars, debounce, steps, r,
                   reverse, rep, sum, outcome, hist>>
    /\ UNCHANGED calVars

\* ---------------------------------------------------------------- run_probe
ProbeDir == (~reverse_z) # reverse

ProbeMoves(h, d) ==
    LET hz == Move(h, Z_AXIS, d, MaxDist)
    IN  IF IsDeltaKin
        THEN Move(Move(hz, X_AXIS, d, MaxDist), Y_AXIS, d, MaxDist)
        ELSE hz

\* run_probe up to the call of wait_for_probe, and wait_for_probe's entry
RunProbe ==
    /\ pc = "run_probe"
    /\ SetHW(ProbeMoves([HW EXCEPT !.her = FALSE], ProbeDir))
    /\ accelerating' = TRUE
    /\ \E f \in 1..SlotsPerTick : current_feedrate' = f
    /\ running' = TRUE
    /\ debounce' = 0
    /\ zpos' = 0
    /\ hist' = NoHist
    /\ pc' = "wfp_poll"
    /\ UNCHANGED <<cfgVars, slot, runout_steps, envVars, steps, r, cmd,
                   reverse, rep, sum, outcome>>
    /\ UNCHANGED calVars

\* ----------------------------------------------------------- wait_for_probe
\* "if no stepper is moving": Z, and on delta machines Y and Z once more
NoStepperMoving ==
    /\ ~moving[Z_AXIS]
    /\ (~IsDeltaKin) \/ (~moving[Y_AXIS] /\ ~moving[Z_AXIS])

\* (the test as it would be if the read being handled were counted first)
StillDebouncing_CountFirst(d, n) == d + 1 < n

\* the debounce test of an active read
StillDebouncing(d, n) == d < n

\* (the count the deceleration phase records, taken for the trigger count)
TriggerSteps_DecelEnd == steps_at_decel_end

\* the trigger step count sampled at the poll that passes the debounce test
TriggerSteps == stepped[Z_AXIS]

\* One pass of the polling loop, up to and including the sample of the step
\* counter; the pass that leaves the loop without a trigger also covers
\* run_probe's running = false.
WfpPoll ==
    /\ pc = "wfp_poll"
    /\ IF halted \/ NoStepperMoving
       THEN /\ r' = FALSE
            /\ running' = FALSE
            /\ pc' = "after"
            /\ UNCHANGED <<debounce, steps, hist>>
       ELSE IF pin
            THEN IF StillDebouncing(debounce, debounce_count)
                 THEN /\ debounce' = debounce + 1
                      /\ hist' = [hist EXCEPT !.activeReads = @ + 1]
                      /\ UNCHANGED <<steps, r, running, pc>>
                 ELSE /\ steps' = TriggerSteps
                      /\ hist' = [hist EXCEPT !.activeReads = @ + 1]
                      /\ pc' = "wfp_mode"
                      /\ UNCHANGED <<debounce, r, running>>
            ELSE /\ debounce' = 0
                 /\ hist' = [hist EXCEPT !.activeReads = 0]
                 /\ UNCHANGED <<steps, r, running, pc>>
    /\ UNCHANGED <<cfgVars, actVars, accelerating, current_feedrate,
                   runout_steps, steps_at_decel_end, has_exceeded_runout,
                   envVars, cmd, reverse, rep, sum, outcome>>
    /\ UNCHANGED calVars

\* "Command steppers to stop (only if not using decel on trigger)"
HardStop(h) ==
    IF IsDeltaKin
    THEN LET hx == IF h.moving[X_AXIS] THEN StopAxis(h, X_AXIS) ELSE h
             hy == IF hx.moving[Y_AXIS] THEN StopAxis(hx, Y_AXIS) ELSE hx
         IN  IF hy.moving[Z_AXIS] THEN StopAxis(hy, Z_AXIS) ELSE hy
    ELSE IF h.moving[Z_AXIS] THEN StopAxis(h, Z_AXIS) ELSE h

\* After the sample: hand the actuators to decelerate(), or stop them, read
\* the overrun flag and leave run_probe.
WfpMode ==
    /\ pc = "wfp_mode"
    /\ IF decelerate_on_trigger
       THEN /\ accelerating' = FALSE
            /\ pc' = "wfp_runout"
            /\ UNCHANGED <<stepped, moving, rate, togo, dirn,
                           steps_at_decel_end, has_exceeded_runout,
                           running, r>>
       ELSE /\ SetHW(HardStop(HW))
            /\ r' = ~has_exceeded_runout
            /\ running' = FALSE
            /\ pc' = "after"
            /\ UNCHANGED accelerating
    /\ UNCHANGED <<cfgVars, slot, zpos, current_feedrate, runout_steps,
                   envVars, debounce, steps, cmd, reverse, rep, sum, outcome,
                   hist>>
    /\ UNCHANGED calVars

\* runout_steps = steps + decelerate_runout * Z_STEPS_PER_MM
RunoutLimit(s) == s + decelerate_runout

WfpRunout ==
    /\ pc = "wfp_runout"
    /\ runout_steps' = RunoutLimit(steps)
    /\ pc' = "wfp_wait"
    /\ UNCHANGED <<cfgVars, actVars, running, accelerating, current_feedrate,
                   steps_at_decel_end, has_exceeded_runout, envVars,
                   debounce, steps, r, cmd, reverse, rep, sum, outcome, hist>>
    /\ UNCHANGED calVars

\* the condition of the "wait for decel to stop" loop
DecelWaiting ==
    moving[Z_AXIS] \/ (is_delta /\ (moving[X_AXIS] \/ moving[Y_AXIS]))

\* The wait loop ends: the flags are put back, the overrun flag is read and
\* run_probe returns.
WfpWait ==
    /\ pc = "wfp_wait"
    /\ ~DecelWaiting
    /\ running' = FALSE
    /\ accelerating' = TRUE
    /\ r' = ~has_exceeded_runout
    /\ pc' = "after"
    /\ UNCHANGED <<cfgVars, actVars, current_feedrate, runout_steps,
                   steps_at_decel_end, has_exceeded_runout, envVars,
                   debounce, steps, cmd, reverse, rep, sum, outcome, hist>>
    /\ UNCHANGED calVars

\* -------------------------------------------------------------- return_probe
\* zsteps_to_mm(n) printed with " Z%1.3f": thousandths of a millimetre
MmString(n) == RoundDiv(1000 * n, steps_per_mm)

\* the planner's steps for a relative Z move of that many thousandths
PlannerSteps(milli) == RoundDiv(milli * steps_per_mm, 1000)

\* the Z steps a return_probe(n) moves away from the bed
ReturnSteps(n) == PlannerSteps(MmString(n))

StopAll(h) == StopAxis(StopAxis(StopAxis(h, X_AXIS), Y_AXIS), Z_AXIS)

\* return_probe(n, reverse): the coordinated relative move, then the stop
ReturnProbe(n) ==
    /\ accelerating' = TRUE
    /\ running' = FALSE
    /\ zpos' = zpos + ReturnSteps(n)
    /\ SetHW(StopAll(HW))

NoReturn ==
    UNCHANGED <<accelerating, running, zpos, stepped, moving, rate, togo,
                dirn, steps_at_decel_end, has_exceeded_runout>>

\* what G30 and ZProbe::doProbeAt pass to return_probe
ReturnArg == IF decelerate_on_trigger THEN steps_at_decel_end ELSE steps

\* what ComprehensiveDeltaStrategy::do_probe_at passes to return_probe
ReturnArgCDS == steps

\* do_probe_at's sanity limit on the averaged step count
MinProbeSteps == 100

\* (the flag of set_last_probe_position the wrong way round)
ProbeFlag_Swapped(ok) == IF ok THEN 0 ELSE 1

\* the flag G30 hands to set_last_probe_position
ProbeFlag(ok) == IF ok THEN 1 ELSE 0

\* G30 after run_probe: report, then reset Z or return
AfterG30 ==
    /\ pc = "after"
    /\ cmd = "G30"
    /\ last_probe' = Append(last_probe, ProbeFlag(r))
    /\ IF r
       THEN /\ lines' = Append(lines, <<"Z:C:", steps>>)
            /\ \E hasZ \in BOOLEAN :
                  IF hasZ /\ ~is_rdelta
                  THEN /\ outcome' = "reset"
                       /\ did' = did \cup {"reset_axis_position"}
                       /\ NoReturn
                  ELSE /\ outcome' = "returned"
                       /\ did' = did \cup {"return_probe"}
                       /\ ReturnProbe(ReturnArg)
       ELSE /\ lines' = Append(lines, "ZProbe not triggered")
            /\ outcome' = "failed"
            /\ NoReturn
            /\ UNCHANGED did
    /\ pc' = "done"
    /\ UNCHANGED <<cfgVars, slot, current_feedrate, runout_steps, envVars,
                   debounce, steps, r, cmd, reverse, rep, sum, hist>>
    /\ UNCHANGED <<calOwn, geoVars, entVars, g38Vars, halts>>
    /\ UNCHANGED moreVars

\* ZProbe::doProbeAt after run_probe
AfterDoProbeAt ==
    /\ pc = "after"
    /\ cmd = "doProbeAt"
    /\ IF r
       THEN outcome' = "returned" /\ ReturnProbe(ReturnArg)
       ELSE outcome' = "failed" /\ NoReturn
    /\ pc' = "done"
    /\ UNCHANGED <<cfgVars, slot, current_feedrate, runout_steps, envVars,
                   debounce, steps, r, cmd, reverse, rep, sum, hist>>
    /\ UNCHANGED calVars

\* do_probe_at after run_probe: return, accumulate, and either probe again
\* or average and check the result
AfterDoProbeAtCDS ==
    /\ pc = "after"
    /\ cmd = "do_probe_at"
    /\ IF ~r
       THEN /\ outcome' = "failed"
            /\ NoReturn
            /\ pc' = "done"
            /\ UNCHANGED <<steps, r, rep, sum>>
       ELSE /\ outcome' = "returned"
            /\ ReturnProbe(ReturnArgCDS)
            /\ rep' = rep + 1
            /\ sum' = sum + steps
            /\ IF rep + 1 < probe_smoothing
               THEN pc' = "run_probe" /\ UNCHANGED <<steps, r>>
               ELSE /\ steps' = (sum + steps) \div probe_smoothing
                    /\ r' = ~((sum + steps) \div probe_smoothing < MinProbeSteps)
                    /\ pc' = "done"
    /\ UNCHANGED <<cfgVars, slot, current_feedrate, runout_steps, envVars,
                   debounce, cmd, reverse, hist>>
    /\ UNCHANGED calVars

\* the command has returned to its caller
Finish ==
    /\ pc = "done"
    /\ pc' = "idle"
    /\ debounce' = 0
    /\ steps' = 0
    /\ r' = FALSE
    /\ cmd' = "none"
    /\ reverse' = FALSE
    /\ rep' = 0
    /\ sum' = 0
    /\ outcome' = "none"
    /\ zpos' = 0
    /\ hist' = NoHist
    /\ lines' = <<>>
    /\ last_probe' = <<>>
    /\ halts' = 0
    /\ did' = {}
    /\ UNCHANGED <<cfgVars, stepped, moving, rate, togo, dirn, slot, zpVars,
                   envVars>>
    /\ UNCHANGED <<calOwn, geoVars, entVars, g38Vars>>
    /\ UNCHANGED moreVars

\* ------------------------------------------------------------ specification
\* on_config_reload: the kinematics flags
Kinematics ==
    /\ is_delta \in BOOLEAN
    /\ is_rdelta \in BOOLEAN
    /\ ~(is_delta /\ is_rdelta)

\* decelerate_runout when the configuration does not set it
RunoutUnset == -1

\* setDecelerateOnTrigger(t), given decelerate_runout: the new flag
DecelFlag(runout, t) == IF runout = RunoutUnset THEN FALSE ELSE t

\* on_config_reload: decelerate_runout, then setDecelerateOnTrigger with the
\* configured flag; here the runout, when set, is a distance
InitDecel ==
    /\ decelerate_runout \in {RunoutUnset} \cup (0..MaxRunout)
    /\ \E t \in BOOLEAN :
          decelerate_on_trigger = DecelFlag(decelerate_runout, t)

\* The machine configurations of the probe-cycle specification.  Z may have
\* an acceleration of its own; on a cartesian machine only Z is driven.
InitConfig ==
    /\ Kinematics
    /\ InitDecel
    /\ debounce_count \in 0..MaxDebounce
    /\ reverse_z = FALSE
    /\ steps_per_mm = 100
    /\ \E iz \in 1..SlotsPerTick, ixy \in 1..SlotsPerTick :
          /\ rate_step = [c \in Axes |-> IF c = Z_AXIS THEN iz ELSE ixy]
          /\ (~IsDeltaKin) => ixy = iz
    /\ probe_smoothing \in 1..MaxSmoothing

\* The named parameters of the arm solution: arm length, delta radius, the
\* tower radius, angle and arm-length offsets
Letters == {"L", "R", "A", "B", "C", "D", "E", "F", "T", "U", "V"}

\* the option map holds no value under a key
NoOption == -1

NoCall == [op |-> "none", group |-> "none", ok |-> FALSE, letters |-> {},
           got |-> [k \in {} |-> 0]]

\* handleConfig: the geometry is dirty; nothing has gone through the facade
InitGeo ==
    /\ geom_dirty = TRUE
    /\ arm = [k \in Letters \ {"R"} |-> 0]
    /\ options = [k \in Letters |-> NoOption]
    /\ fres = NoCall
    /\ last_set = [k \in Letters |-> NoOption]
    /\ pos_resets = 0
    /\ geo_ops = 0

\* no strategy entry point runs
EntIdle ==
    /\ rcg_phase = "none"
    /\ entry = "none"
    /\ entry_dirty = FALSE
    /\ pair_done = FALSE
    /\ own_probed = FALSE

\* on_module_loaded: probing = false; no straight probe runs
G38Idle ==
    /\ probing = FALSE
    /\ probe_detected = FALSE
    /\ compensationTransform = "nullptr"
    /\ savect = "nullptr"
    /\ gpc = "idle"
    /\ subcode = 0
    /\ axis = "none"
    /\ fired = FALSE
    /\ missed = FALSE
    /\ ct_before = "nullptr"

\* the command in progress has printed and recorded nothing
OutIdle ==
    /\ lines = <<>>
    /\ last_probe = <<>>
    /\ halts = 0
    /\ did = {}

\* the planner's acceleration of the configuration, mm/s^2
ConfigAcceleration == 500

\* no repeatability test runs: its locals do not exist yet
RtIdle ==
    /\ rpc = "idle"
    /\ nSamples = 0
    /\ ri = 0
    /\ sample = <<>>
    /\ mu = 0
    /\ rmin = 0
    /\ rmax = 0
    /\ acceleration = ConfigAcceleration
    /\ saved_acceleration = 0
    /\ cycles = 0
    /\ returns = 0
    /\ accepted = <<>>
    /\ range = 0

\* the planner queue is empty and handleConfig has set probe_from_height
\* to -1
QueIdle ==
    /\ queued = 0
    /\ todo = <<>>
    /\ pfh_known = FALSE
    /\ probe_q = [site |-> "none", q |-> 0, drained |-> TRUE, now |-> TRUE]

\* points of the depth map (CDS_DEPTH_MAP_N_POINTS is 12)
MapPoints == 2

ZeroMap == [i \in 1..MapPoints |-> 0]

NoAcq == [before |-> ZeroMap, stored |-> <<>>, failed |-> FALSE]

\* handleConfig has zeroed both depth maps; no G31 runs
MapIdle ==
    /\ mpc = "idle"
    /\ origin_steps = 0
    /\ mi = 0
    /\ cur_depth_map = ZeroMap
    /\ last_depth_map = ZeroMap
    /\ acq = NoAcq

\* Nothing moves and no command runs.  The fields that are read before the
\* code first writes them (running by acceleration_tick, runout_steps by
\* decelerate, steps_at_decel_end by the callers of return_probe) hold
\* whatever the memory held.
InitRest ==
    /\ stepped = [c \in Axes |-> 0]
    /\ moving = [c \in Axes |-> FALSE]
    /\ rate = [c \in Axes |-> 0]
    /\ togo = [c \in Axes |-> 0]
    /\ dirn = [c \in Axes |-> FALSE]
    /\ slot = 0
    /\ zpos = 0
    /\ running \in BOOLEAN
    /\ accelerating = TRUE
    /\ current_feedrate = 1
    /\ runout_steps \in {0, MaxDist + MaxRunout}
    /\ steps_at_decel_end \in {0, MaxDist}
    /\ has_exceeded_runout = FALSE
    /\ pin = FALSE
    /\ halted = FALSE
    /\ pc = "idle"
    /\ debounce = 0
    /\ steps = 0
    /\ r = FALSE
    /\ cmd = "none"
    /\ reverse = FALSE
    /\ rep = 0
    /\ sum = 0
    /\ outcome = "none"
    /\ hist = NoHist
    /\ EntIdle
    /\ OutIdle
    /\ RtIdle
    /\ QueIdle
    /\ MapIdle

\* No G32 runs: its locals do not exist yet
CalIdle ==
    /\ cpc = "idle"
    /\ keep = FALSE
    /\ hasR = FALSE
    /\ hasE = FALSE
    /\ trimxyz = [c \in Axes |-> 0]
    /\ trimscale = 0
    /\ last_deviation = 0
    /\ deviation = 0
    /\ tz = [c \in Axes |-> 0]
    /\ iter = 0
    /\ cmm = 0
    /\ dlast = 0
    /\ es_ok = FALSE
    /\ dr_ok = FALSE
    /\ announced = FALSE

\* The probe-cycle specifications leave the calibration out: one machine
InitNoCal ==
    /\ trim = [c \in Axes |-> 0]
    /\ delta_radius = 0
    /\ machine = [base |-> [c \in Axes |-> 0], cbase |-> 0, gain |-> 0,
                  rgain |-> 0, endstops |-> TRUE, optional |-> TRUE]
    /\ CalIdle
    /\ InitGeo
    /\ G38Idle

Init == InitConfig /\ InitRest /\ InitNoCal

Next ==
    \/ AccelTick
    \/ StepTick
    \/ PinFlip
    \/ StartG30
    \/ StartDoProbeAt
    \/ StartDoProbeAtCDS
    \/ RunProbe
    \/ WfpPoll
    \/ WfpMode
    \/ WfpRunout
    \/ WfpWait
    \/ AfterG30
    \/ AfterDoProbeAt
    \/ AfterDoProbeAtCDS
    \/ Finish

Spec == Init /\ [][Next]_vars

\* ------------------------------------------------- the polling loop alone
\* Single probes (G30, ZProbe::doProbeAt) on machines whose actuators share
\* one acceleration.
InitPoll ==
    /\ Kinematics
    /\ InitDecel
    /\ debounce_count \in 0..MaxDebounce
    /\ reverse_z = FALSE
    /\ steps_per_mm = 100
    /\ \E i \in 1..SlotsPerTick : rate_step = [c \in Axes |-> i]
    /\ probe_smoothing = 1
    /\ InitRest
    /\ InitNoCal

NextPoll ==
    \/ AccelTick
    \/ StepTick
    \/ PinFlip
    \/ StartG30
    \/ StartDoProbeAt
    \/ RunProbe
    \/ WfpPoll
    \/ WfpMode
    \/ WfpRunout
    \/ WfpWait
    \/ AfterG30
    \/ AfterDoProbeAt
    \/ Finish

SpecPoll == InitPoll /\ [][NextPoll]_vars

\* ------------------------------------------------- configuration changes
\* How far below zero a configured decelerate_runout may lie, in steps
MaxNegRunout == 2

\* the values a configuration file can give decelerate_runout
RunoutValues == (-MaxNegRunout)..MaxRunout

\* on_config_reload: the settings of the probe are read again
ConfigReload ==
    /\ pc = "idle"
    /\ \E dc \in 0..MaxDebounce : debounce_count' = dc
    /\ \E rn \in RunoutValues, t \in BOOLEAN :
          /\ decelerate_runout' = rn
          /\ decelerate_on_trigger' = DecelFlag(rn, t)
    /\ \E d \in BOOLEAN, rd \in BOOLEAN :
          /\ ~(d /\ rd)
          /\ is_delta' = d
          /\ is_rdelta' = rd
    /\ \E rz \in BOOLEAN : reverse_z' = rz
    /\ UNCHANGED <<steps_per_mm, rate_step, probe_smoothing, actVars, zpVars,
                   envVars, fgVars, hist>>
    /\ UNCHANGED calVars

\* G29 D<value>: measure_probe_repeatability hands the value to
\* setDecelerateOnTrigger
GcodeD ==
    /\ pc = "idle"
    /\ \E t \in BOOLEAN :
          decelerate_on_trigger' = DecelFlag(decelerate_runout, t)
    /\ UNCHANGED <<is_delta, is_rdelta, decelerate_runout, debounce_count,
                   reverse_z, steps_per_mm, rate_step, probe_smoothing,
                   actVars, zpVars, envVars, fgVars, hist>>
    /\ UNCHANGED calVars

NextCfg ==
    \/ ConfigReload
    \/ GcodeD
    \/ PinFlip

SpecCfg == Init /\ [][NextCfg]_vars

\* ------------------------------------------- G32: the machine it calibrates
(***************************************************************************)
(* SpecCal: G32 of the comprehensive delta strategy.  A do_probe_at is one  *)
(* step here: it fails, or it yields the depth the machine has at that     *)
(* point.  Depths are steps at 100 steps per millimetre; trims and         *)
(* trimscale are kept in units of 1/TrimUnit (of a step, of one), the      *)
(* centre-to-tower difference in thirds of a step and the delta radius in  *)
(* sixths of a step, so that the arithmetic of the source is exact.        *)
(***************************************************************************)
\* depth of the bed below the probing height on a level machine, in steps
BaseDepth == 200
\* how much deeper a tower base, or the centre, can lie, in steps
MaxTilt == 40
\* the trim a tower may have before G32 K, in steps below zero
MaxPreTrim == 2
\* the delta radius of the configuration, in sixths of a step
InitRadius == 9000
\* G32 commands in one run of the model
MaxRuns == 1

TrimUnit == 100000

MinOf(f) == CHOOSE v \in {f[c] : c \in Axes} : \A c \in Axes : v <= f[c]
MaxOf(f) == CHOOSE v \in {f[c] : c \in Axes} : \A c \in Axes : v >= f[c]

\* The depth do_probe_at finds at the base of tower c with trims tv and
\* delta radius rad: a responsive machine follows the trim and the radius,
\* an unresponsive one does not.
TowerDepth(c, tv, rad) ==
    machine.base[c] + machine.gain * (tv[c] \div TrimUnit)
                    + machine.rgain * (rad \div 15)

TowerDepths(tv, rad) == [c \in Axes |-> TowerDepth(c, tv, rad)]

\* do_probe_at's sanity check on a depth
ProbeSane(depth) == ~(depth < MinProbeSteps)

\* the locals of G32 go out of scope
CalReset ==
    /\ cpc' = "idle"
    /\ keep' = FALSE
    /\ hasR' = FALSE
    /\ hasE' = FALSE
    /\ trimxyz' = [c \in Axes |-> 0]
    /\ trimscale' = 0
    /\ last_deviation' = 0
    /\ deviation' = 0
    /\ tz' = [c \in Axes |-> 0]
    /\ iter' = 0
    /\ cmm' = 0
    /\ dlast' = 0
    /\ es_ok' = FALSE
    /\ dr_ok' = FALSE
    /\ announced' = FALSE

probeVars == <<cfgVars, actVars, zpVars, envVars, fgVars, extVars>>

\* handleGcode, G32 [R] [E] [K]: which calibrations run
StartG32 ==
    /\ cpc = "idle"
    /\ pc = "idle"
    /\ PinGate
    /\ hist.runs < MaxRuns
    /\ \E rw \in BOOLEAN, ew \in BOOLEAN, kw \in BOOLEAN :
          /\ hasR' = rw
          /\ hasE' = ew
          /\ keep' = kw
          /\ cpc' = IF ~rw THEN "es_setup"
                    ELSE IF ~ew THEN "dr_center" ELSE "g32_announce"
    /\ hist' = [NoHist EXCEPT !.runs = hist.runs + 1]
    /\ UNCHANGED <<probeVars, trim, delta_radius, machine, trimxyz, trimscale,
                   last_deviation, deviation, tz, iter, cmm, dlast, es_ok,
                   dr_ok, announced>>

\* (G32 going on to the delta radius whether or not E is given)
AfterEndstops_IgnoreE ==
    IF rcg_phase # "none" THEN "rcg_es_done" ELSE "dr_center"

\* where the caller goes on after calibrate_delta_endstops has returned
\* true: require_clean_geometry to its next statement, G32 to the delta
\* radius unless E is given
AfterEndstops ==
    IF rcg_phase # "none" THEN "rcg_es_done"
    ELSE IF ~hasE THEN "dr_center" ELSE "g32_announce"

\* the target of both calibrations: 0.03 mm
target == 3

\* the start value of trimscale: 1.3
TrimScaleStart == 130000

\* calibrate_delta_endstops up to the first probes: zero the trims, or take
\* the stored ones over when K is given
EsSetup ==
    /\ cpc = "es_setup"
    /\ trimscale' = TrimScaleStart
    /\ last_deviation' = 999
    /\ deviation' = 0
    /\ IF ~machine.endstops
       THEN /\ cpc' = "g32_done"
            /\ UNCHANGED <<trim, trimxyz>>
       ELSE /\ cpc' = "es_first"
            /\ trim' = IF keep THEN trim ELSE [c \in Axes |-> 0]
            /\ trimxyz' = IF keep THEN trim ELSE [c \in Axes |-> 0]
    /\ UNCHANGED <<probeVars, hist, delta_radius, machine, keep, hasR, hasE,
                   tz, iter, cmm, dlast, es_ok, dr_ok, announced>>

\* "Set all towers' trims": each trim moves by (min - depth) * trimscale
Adjusted(tv, depths, scale) ==
    [c \in Axes |-> tv[c] + (MinOf(depths) - depths[c]) * scale]

\* (the reduction without its lower limit)
ReducedScale_NoLimit(dev, last, scale) ==
    IF dev >= last THEN (scale * 9) \div 10 ELSE scale

\* "If things stayed the same or got worse, we reduce the trimscale"
ReducedScale(dev, last, scale) ==
    IF dev >= last /\ scale * 95 >= 90 * TrimUnit
    THEN (scale * 9) \div 10
    ELSE scale

\* (the normalisation subtracting the smallest trim)
Normalised_ByMin(tv) == [c \in Axes |-> tv[c] - MinOf(tv)]

\* "Correct the downward creep issue by normalizing the trim offsets"
Normalised(tv) == [c \in Axes |-> tv[c] - MaxOf(tv)]

\* (the loop running one iteration more)
EsLoopDone_OneMore(n) == n > 21

\* the main endstop leveling loop has run its iterations
EsLoopDone(n) == n > 20

\* the three probes all triggered and passed the sanity check
ProbesOK(ok, depths) == ok /\ \A c \in Axes : ProbeSane(depths[c])

\* calibrate_delta_endstops, the initial probes: within target the
\* calibration returns true at once, otherwise the trims get their first
\* adjustment and the loop starts
EsFirst ==
    /\ cpc = "es_first"
    /\ \E ok \in BOOLEAN :
         LET depths == TowerDepths(trim, delta_radius)
             dev == MaxOf(depths) - MinOf(depths)
         IN  IF ~ProbesOK(ok, depths)
             THEN /\ cpc' = "g32_done"
                  /\ UNCHANGED <<tz, last_deviation, trimxyz, iter, es_ok>>
             ELSE /\ tz' = depths
                  /\ IF dev <= target
                     THEN /\ es_ok' = TRUE
                          /\ cpc' = AfterEndstops
                          /\ UNCHANGED <<last_deviation, trimxyz, iter>>
                     ELSE /\ last_deviation' = dev
                          /\ trimxyz' = Adjusted(trimxyz, depths, trimscale)
                          /\ iter' = 1
                          /\ cpc' = "es_loop"
                          /\ UNCHANGED es_ok
    /\ UNCHANGED <<probeVars, hist, trim, delta_radius, machine, keep, hasR,
                   hasE, trimscale, deviation, cmm, dlast, dr_ok, announced>>

\* One iteration of the main endstop leveling loop: write the trims, probe
\* the three tower bases, then adjust again or normalise and return true
EsIteration ==
    /\ cpc = "es_loop"
    /\ ~EsLoopDone(iter)
    /\ \E ok \in BOOLEAN :
         LET depths == TowerDepths(trimxyz, delta_radius)
             dev == MaxOf(depths) - MinOf(depths)
             scale == ReducedScale(dev, last_deviation, trimscale)
         IN  IF ~ProbesOK(ok, depths)
             THEN /\ trim' = trimxyz
                  /\ cpc' = "g32_done"
                  /\ UNCHANGED <<tz, deviation, last_deviation, trimscale,
                                 trimxyz, iter, es_ok>>
             ELSE /\ tz' = depths
                  /\ deviation' = dev
                  /\ IF dev > target
                     THEN /\ trim' = trimxyz
                          /\ trimscale' = scale
                          /\ last_deviation' = dev
                          /\ trimxyz' = Adjusted(trimxyz, depths, scale)
                          /\ iter' = iter + 1
                          /\ UNCHANGED <<cpc, es_ok>>
                     ELSE /\ trimxyz' = Normalised(trimxyz)
                          /\ trim' = Normalised(trimxyz)
                          /\ es_ok' = TRUE
                          /\ cpc' = AfterEndstops
                          /\ UNCHANGED <<trimscale, last_deviation, iter>>
    /\ hist' = [hist EXCEPT !.setAt = iter, !.iters = iter]
    /\ UNCHANGED <<probeVars, delta_radius, machine, keep, hasR, hasE, cmm,
                   dlast, dr_ok, announced>>

\* The loop is over without a trim within target: "Trim did not resolve"
EsExhausted ==
    /\ cpc = "es_loop"
    /\ EsLoopDone(iter)
    /\ IF MaxOf(tz) - MinOf(tz) > target
       THEN cpc' = "g32_done" /\ UNCHANGED es_ok
       ELSE cpc' = AfterEndstops /\ es_ok' = TRUE
    /\ UNCHANGED <<probeVars, hist, trim, delta_radius, machine, keep, hasR,
                   hasE, trimxyz, trimscale, last_deviation, deviation, tz,
                   iter, cmm, dlast, dr_ok, announced>>

\* calibrate_delta_radius up to the loop: probe the centre, read the radius
DrCenter ==
    /\ cpc = "dr_center"
    /\ \E ok \in BOOLEAN :
         IF ~(ok /\ ProbeSane(machine.cbase)) \/ delta_radius = 0
         THEN /\ cpc' = "g32_done"
              /\ cmm' = IF ok /\ ProbeSane(machine.cbase)
                        THEN machine.cbase ELSE cmm
              /\ UNCHANGED iter
         ELSE /\ cmm' = machine.cbase
              /\ iter' = 1
              /\ cpc' = "dr_loop"
    /\ UNCHANGED <<probeVars, hist, trim, delta_radius, machine, keep, hasR,
                   hasE, trimxyz, trimscale, last_deviation, deviation, tz,
                   dlast, es_ok, dr_ok, announced>>

\* d = cmm - m, m the mean of the three tower depths: in thirds of a step
CenterDelta(c, depths) ==
    3 * c - (depths[X_AXIS] + depths[Y_AXIS] + depths[Z_AXIS])

\* abs(d) <= target
WithinTarget(d3) == (IF d3 < 0 THEN -d3 ELSE d3) <= 3 * target

\* delta_radius += d * drinc, drinc = 2.5: in sixths of a step
NewRadius(rad, d3) == rad + 5 * d3

\* the delta radius loop has run its iterations
DrLoopDone(n) == n > 10

\* One iteration of the delta radius loop
DrIteration ==
    /\ cpc = "dr_loop"
    /\ ~DrLoopDone(iter)
    /\ \E ok \in BOOLEAN :
         LET depths == TowerDepths(trim, delta_radius)
             d3 == CenterDelta(cmm, depths)
         IN  IF ~ProbesOK(ok, depths)
             THEN /\ cpc' = "g32_done"
                  /\ UNCHANGED <<tz, dlast, delta_radius, iter, dr_ok>>
             ELSE /\ tz' = depths
                  /\ dlast' = d3
                  /\ IF WithinTarget(d3)
                     THEN /\ dr_ok' = TRUE
                          /\ cpc' = "g32_announce"
                          /\ UNCHANGED <<delta_radius, iter>>
                     ELSE /\ delta_radius' = NewRadius(delta_radius, d3)
                          /\ iter' = iter + 1
                          /\ UNCHANGED <<cpc, dr_ok>>
    /\ hist' = [hist EXCEPT !.iters = iter]
    /\ UNCHANGED <<probeVars, trim, machine, keep, hasR, hasE, trimxyz,
                   trimscale, last_deviation, deviation, cmm, es_ok,
                   announced>>

\* the value calibrate_delta_radius returns when its loop has run out
DrExhaustedResult == TRUE

\* The loop is over: calibrate_delta_radius returns
DrExhausted ==
    /\ cpc = "dr_loop"
    /\ DrLoopDone(iter)
    /\ dr_ok' = DrExhaustedResult
    /\ cpc' = IF DrExhaustedResult THEN "g32_announce" ELSE "g32_done"
    /\ UNCHANGED <<probeVars, hist, trim, delta_radius, machine, keep, hasR,
                   hasE, trimxyz, trimscale, last_deviation, deviation, tz,
                   iter, cmm, dlast, es_ok, announced>>

\* "Basic calibration complete, save settings with M500"
G32Announce ==
    /\ cpc = "g32_announce"
    /\ rcg_phase = "none"
    /\ announced' = TRUE
    /\ cpc' = "g32_done"
    /\ UNCHANGED <<probeVars, hist, trim, delta_radius, machine, keep, hasR,
                   hasE, trimxyz, trimscale, last_deviation, deviation, tz,
                   iter, cmm, dlast, es_ok, dr_ok>>

\* handleGcode returns
G32Return ==
    /\ cpc = "g32_done"
    /\ rcg_phase = "none"
    /\ CalReset
    /\ hist' = [NoHist EXCEPT !.runs = hist.runs,
                              !.first = [ok |-> es_ok /\ keep, trim |-> trim]]
    /\ UNCHANGED <<probeVars, trim, delta_radius, machine>>

\* ------------------------------------ strategy entry points, the dirty flag
\* what the entry points leave alone
entryFrame == <<cfgVars, actVars, zpVars, envVars, fgVars, geoVars, g38Vars,
                outVars>>

\* the locals of the two calibrations
calLocals == <<trimxyz, trimscale, last_deviation, deviation, tz, iter, cmm,
               dlast, es_ok, dr_ok, announced>>

\* handleGcode, G29: measure_probe_repeatability reads its options and goes
\* on to prepare_to_probe and its samples
StartG29 ==
    /\ cpc = "idle"
    /\ pc = "idle"
    /\ PinGate
    /\ hist.runs < MaxRuns
    /\ hist' = [NoHist EXCEPT !.runs = hist.runs + 1]
    /\ entry' = "G29"
    /\ entry_dirty' = geom_dirty
    /\ cpc' = "entry_probe"
    /\ UNCHANGED <<entryFrame, rcg_phase, pair_done, own_probed, trim,
                   delta_radius, machine, keep, hasR, hasE, calLocals>>
    /\ UNCHANGED moreVars

\* handleGcode, G31: heuristic_calibration calls depth_map_print_surface,
\* whose first statement is require_clean_geometry
StartG31 ==
    /\ cpc = "idle"
    /\ pc = "idle"
    /\ PinGate
    /\ hist.runs < MaxRuns
    /\ hist' = [NoHist EXCEPT !.runs = hist.runs + 1]
    /\ entry' = "G31"
    /\ entry_dirty' = geom_dirty
    /\ cpc' = "rcg"
    /\ UNCHANGED <<entryFrame, rcg_phase, pair_done, own_probed, trim,
                   delta_radius, machine, keep, hasR, hasE, calLocals>>
    /\ UNCHANGED moreVars

\* require_clean_geometry with the flag clear returns at once; with the flag
\* set it calls calibrate_delta_endstops without a gcode.  The null gcode
\* is dereferenced for its stream when the trims are zeroed: the build
\* either faults there or goes on with the call.
RequireCleanGeometry ==
    /\ cpc = "rcg"
    /\ IF ~geom_dirty
       THEN /\ cpc' = "entry_probe"
            /\ UNCHANGED rcg_phase
       ELSE \E fault \in BOOLEAN :
               IF fault
               THEN cpc' = "fault" /\ UNCHANGED rcg_phase
               ELSE cpc' = "es_setup" /\ rcg_phase' = "es"
    /\ UNCHANGED <<entryFrame, hist, entry, entry_dirty, pair_done,
                   own_probed, trim, delta_radius, machine, keep, hasR, hasE,
                   calLocals>>
    /\ UNCHANGED moreVars

\* require_clean_geometry goes on whatever calibrate_delta_endstops has
\* returned: calibrate_delta_radius, again without a gcode, whose first
\* statement dereferences it
RcgRadius ==
    /\ rcg_phase = "es"
    /\ cpc \in {"rcg_es_done", "g32_done"}
    /\ \E fault \in BOOLEAN :
          IF fault
          THEN cpc' = "fault" /\ UNCHANGED rcg_phase
          ELSE cpc' = "dr_center" /\ rcg_phase' = "dr"
    /\ UNCHANGED <<entryFrame, hist, entry, entry_dirty, pair_done,
                   own_probed, trim, delta_radius, machine, keep, hasR, hasE,
                   calLocals>>
    /\ UNCHANGED moreVars

\* require_clean_geometry after calibrate_delta_radius has returned, true
\* or false: geom_dirty = false
RcgDone ==
    /\ rcg_phase = "dr"
    /\ cpc \in {"g32_announce", "g32_done"}
    /\ geom_dirty' = FALSE
    /\ pair_done' = TRUE
    /\ rcg_phase' = "none"
    /\ cpc' = "entry_probe"
    /\ UNCHANGED <<cfgVars, actVars, zpVars, envVars, fgVars, arm, options,
                   fres, last_set, pos_resets, geo_ops, g38Vars, outVars,
                   hist, entry, entry_dirty, own_probed, trim, delta_radius,
                   machine, keep, hasR, hasE, calLocals>>
    /\ UNCHANGED moreVars

\* the entry point's own probe cycles: prepare_to_probe, then its samples
\* or its depth map
EntryProbe ==
    /\ cpc = "entry_probe"
    /\ own_probed' = TRUE
    /\ cpc' = "entry_done"
    /\ UNCHANGED <<entryFrame, hist, rcg_phase, entry, entry_dirty, pair_done,
                   trim, delta_radius, machine, keep, hasR, hasE, calLocals>>
    /\ UNCHANGED moreVars

\* handleGcode returns
EntryReturn ==
    /\ cpc = "entry_done"
    /\ CalReset
    /\ rcg_phase' = "none"
    /\ entry' = "none"
    /\ entry_dirty' = FALSE
    /\ pair_done' = FALSE
    /\ own_probed' = FALSE
    /\ hist' = [NoHist EXCEPT !.runs = hist.runs]
    /\ UNCHANGED <<entryFrame, trim, delta_radius, machine>>
    /\ UNCHANGED moreVars

\* The machines G32 is run on: tower bases level or not, the centre level
\* with the X tower base or not, following trims and radius or not, the
\* endstop module there or not, trims zero or set by hand, a delta radius
\* configured or not
InitMachine ==
    /\ \E by \in {0, MaxTilt}, bz \in {0, MaxTilt}, bc \in {0, MaxTilt},
          g \in 0..1, rg \in 0..1, es \in BOOLEAN :
          machine = [base |-> [c \in Axes |->
                                  IF c = X_AXIS THEN BaseDepth
                                  ELSE IF c = Y_AXIS THEN BaseDepth + by
                                  ELSE BaseDepth + bz],
                     cbase |-> BaseDepth + bc, gain |-> g, rgain |-> rg,
                     endstops |-> es, optional |-> TRUE]
    /\ \E px \in 0..MaxPreTrim, pyz \in 0..MaxPreTrim :
          trim = [c \in Axes |-> IF c = X_AXIS THEN -px * TrimUnit
                                  ELSE -pyz * TrimUnit]
    /\ delta_radius \in {0, InitRadius}

\* a delta machine at rest; only G32 runs
InitCal ==
    /\ is_delta = TRUE
    /\ is_rdelta = FALSE
    /\ decelerate_runout = RunoutUnset
    /\ decelerate_on_trigger = FALSE
    /\ debounce_count = 0
    /\ reverse_z = FALSE
    /\ steps_per_mm = 100
    /\ rate_step = [c \in Axes |-> 1]
    /\ probe_smoothing = 1
    /\ InitRest
    /\ runout_steps = 0
    /\ steps_at_decel_end = 0
    /\ running = FALSE
    /\ InitMachine
    /\ CalIdle
    /\ InitGeo
    /\ G38Idle

NextCal ==
    \/ StartG32
    \/ EsSetup
    \/ EsFirst
    \/ EsIteration
    \/ EsExhausted
    \/ DrCenter
    \/ DrIteration
    \/ DrExhausted
    \/ G32Announce
    \/ G32Return

SpecCal == InitCal /\ [][NextCal]_vars

\* G29, G31 and G32 on the same machines
NextEntry ==
    \/ NextCal
    \/ StartG29
    \/ StartG31
    \/ RequireCleanGeometry
    \/ RcgRadius
    \/ RcgDone
    \/ EntryProbe
    \/ EntryReturn

SpecEntry == InitCal /\ [][NextEntry]_vars

\* --------------------------------------------------- the geometry facade
(***************************************************************************)
(* SpecGeo: the setters and getters of the strategy on the arm solution's  *)
(* named parameters, and M665 changing the same parameters from outside.   *)
(* The delta radius R is delta_radius; the other ten parameters are arm.   *)
(***************************************************************************)
\* the largest value a parameter is set to
MaxGeoValue == 1
\* geometry commands in one run of the model
MaxGeoOps == 3

GeoValues == 1..MaxGeoValue

Groups == {"basic", "radius", "angle", "arm"}

\* the keys each setter writes into the option map, in argument order
SetterKeys(g) ==
    IF g = "basic" THEN <<"L", "R">>
    ELSE IF g = "radius" THEN <<"A", "B", "C">>
    ELSE IF g = "angle" THEN <<"D", "E", "F">>
    ELSE <<"T", "U", "V">>

\* (the arm offset getter reading the keys of the angle offsets)
GetterKeys_AngleForArm(g) ==
    IF g = "basic" THEN <<"L", "R">>
    ELSE IF g = "radius" THEN <<"A", "B", "C">>
    ELSE <<"D", "E", "F">>

\* the keys each getter reads from the option map, in argument order
GetterKeys(g) ==
    IF g = "basic" THEN <<"L", "R">>
    ELSE IF g = "radius" THEN <<"A", "B", "C">>
    ELSE IF g = "angle" THEN <<"D", "E", "F">>
    ELSE <<"T", "U", "V">>

KeySet(ks) == {ks[i] : i \in 1..Len(ks)}

\* what the arm solution holds under a key
ArmValue(k) == IF k = "R" THEN delta_radius ELSE arm[k]

\* arm_solution->set_optional(opts): every key the map holds is taken over
SetOptional(opts) ==
    [k \in Letters |-> IF opts[k] # NoOption THEN opts[k] ELSE ArmValue(k)]

\* arm_solution->get_optional(opts): the map gets every parameter
GetOptional == [k \in Letters |-> ArmValue(k)]

\* the arm solution takes the parameters v over
WriteArm(v) ==
    /\ arm' = [k \in Letters \ {"R"} |-> v[k]]
    /\ delta_radius' = v["R"]

geoFrame == <<cfgVars, actVars, zpVars, envVars, fgVars, hist, entVars,
              g38Vars, outVars, trim, machine, cpc, keep, hasR, hasE,
              calLocals>>

\* set_delta_basic_geometry, set_tower_radius_offsets,
\* set_tower_angle_offsets, set_tower_arm_offsets: the arguments go into the
\* option map, the map goes to the arm solution, and when that has taken it
\* post_adjust_kinematics() resets the axis position
FacadeSet(g) ==
    /\ cpc = "idle"
    /\ pc = "idle"
    /\ geo_ops < MaxGeoOps
    /\ geo_ops' = geo_ops + 1
    /\ \E vals \in [1..Len(SetterKeys(g)) -> GeoValues] :
         LET keys == SetterKeys(g)
             opts == [k \in Letters |->
                        IF \E i \in 1..Len(keys) : keys[i] = k
                        THEN vals[CHOOSE i \in 1..Len(keys) : keys[i] = k]
                        ELSE options[k]]
         IN  /\ options' = opts
             /\ fres' = [op |-> "set", group |-> g, ok |-> machine.optional,
                         letters |-> KeySet(keys), got |-> vals]
             /\ IF machine.optional
                THEN /\ WriteArm(SetOptional(opts))
                     /\ pos_resets' = pos_resets + 1
                     /\ last_set' = [k \in Letters |->
                                       IF k \in KeySet(keys) THEN opts[k]
                                       ELSE last_set[k]]
                ELSE UNCHANGED <<arm, delta_radius, pos_resets, last_set>>
    /\ UNCHANGED <<geoFrame, geom_dirty>>
    /\ UNCHANGED moreVars

\* get_delta_basic_geometry, get_tower_radius_offsets,
\* get_tower_angle_offsets, get_tower_arm_offsets: the option map is filled
\* by the arm solution and the arguments are read from it
FacadeGet(g) ==
    /\ cpc = "idle"
    /\ pc = "idle"
    /\ geo_ops < MaxGeoOps
    /\ geo_ops' = geo_ops + 1
    /\ LET keys == GetterKeys(g)
           opts == IF machine.optional THEN GetOptional ELSE options
       IN  /\ options' = opts
           /\ fres' = [op |-> "get", group |-> g, ok |-> machine.optional,
                       letters |-> KeySet(keys),
                       got |-> IF machine.optional
                               THEN [i \in 1..Len(keys) |-> opts[keys[i]]]
                               ELSE [i \in {} |-> 0]]
    /\ UNCHANGED <<geoFrame, geom_dirty, arm, delta_radius, pos_resets,
                   last_set>>
    /\ UNCHANGED moreVars

\* the words an M665 carries: Z alone, one geometric letter, or all of them
M665Words == {{"Z"}} \cup {{k} : k \in Letters} \cup {Letters \cup {"Z"}}

\* M665: the robot hands the geometric letters to the arm solution, and
\* handleGcode sets the dirty flag when the command carries one of them
M665 ==
    /\ cpc = "idle"
    /\ pc = "idle"
    /\ geo_ops < MaxGeoOps
    /\ geo_ops' = geo_ops + 1
    /\ \E ws \in M665Words, v \in GeoValues :
         LET given == ws \cap Letters
         IN  /\ fres' = [op |-> "m665", group |-> "none", ok |-> TRUE,
                         letters |-> ws, got |-> [i \in {} |-> 0]]
             /\ geom_dirty' = IF given # {} THEN TRUE ELSE geom_dirty
             /\ IF machine.optional
                THEN WriteArm([k \in Letters |->
                                 IF k \in given THEN v ELSE ArmValue(k)])
                ELSE UNCHANGED <<arm, delta_radius>>
             /\ last_set' = [k \in Letters |->
                               IF k \in given THEN NoOption ELSE last_set[k]]
    /\ UNCHANGED <<geoFrame, options, pos_resets>>
    /\ UNCHANGED moreVars

\* A machine at rest whose arm solution takes named parameters or not, with
\* the dirty flag as handleConfig sets it or as require_clean_geometry has
\* left it
InitGeoSpec ==
    /\ is_delta = TRUE
    /\ is_rdelta = FALSE
    /\ decelerate_runout = RunoutUnset
    /\ decelerate_on_trigger = FALSE
    /\ debounce_count = 0
    /\ reverse_z = FALSE
    /\ steps_per_mm = 100
    /\ rate_step = [c \in Axes |-> 1]
    /\ probe_smoothing = 1
    /\ InitRest
    /\ runout_steps = 0
    /\ steps_at_decel_end = 0
    /\ running = FALSE
    /\ trim = [c \in Axes |-> 0]
    /\ \E opt \in BOOLEAN :
          /\ machine = [base |-> [c \in Axes |-> BaseDepth],
                        cbase |-> BaseDepth, gain |-> 1, rgain |-> 1,
                        endstops |-> TRUE, optional |-> opt]
          /\ delta_radius = IF opt THEN InitRadius ELSE 0
    /\ CalIdle
    /\ G38Idle
    /\ geom_dirty \in BOOLEAN
    /\ arm = [k \in Letters \ {"R"} |-> 0]
    /\ options = [k \in Letters |-> NoOption]
    /\ fres = NoCall
    /\ last_set = [k \in Letters |-> NoOption]
    /\ pos_resets = 0
    /\ geo_ops = 0

NextGeo ==
    \/ \E g \in Groups : FacadeSet(g)
    \/ \E g \in Groups : FacadeGet(g)
    \/ M665

SpecGeo == InitGeoSpec /\ [][NextGeo]_vars

\* ------------------------------------------------------- straight probes
(***************************************************************************)
(* SpecG38: G38.2 and G38.3.  The foreground arms the detector, plans one  *)
(* move and waits for the queue to empty; the slow ticker runs read_probe  *)
(* between any two foreground steps; the probe switch opens and closes as  *)
(* it will.                                                                *)
(***************************************************************************)
\* THEKERNEL->robot->compensationTransform: none, or the one a levelling
\* strategy has installed
Transforms == {"nullptr", "transform"}

\* the subcodes a G38 arrives with: .2, .3 and one that is not supported
Subcodes == {2, 3, 4}

AxisWords == {"X", "Y", "Z", "none"}

g38Frame == <<cfgVars, runout_steps, running, accelerating, current_feedrate,
              fgVars, geoVars, entVars, calOwn>>

\* on_gcode_received, G38: the subcode, the pin, then the compensation
\* transform is saved and switched off and the axis word looked for
StartG38 ==
    /\ gpc = "idle"
    /\ pc = "idle"
    /\ cpc = "idle"
    /\ ~halted
    /\ hist.runs < MaxRuns
    /\ hist' = [NoHist EXCEPT !.runs = hist.runs + 1]
    /\ ct_before' = compensationTransform
    /\ \E sc \in Subcodes, ax \in AxisWords :
          /\ subcode' = sc
          /\ axis' = ax
          /\ IF sc # 2 /\ sc # 3
             THEN /\ lines' = <<"error:Only G38.2 and G38.3 are supported">>
                  /\ gpc' = "g38_return"
                  /\ UNCHANGED <<savect, compensationTransform>>
             ELSE IF pin
             THEN /\ lines' = <<"error:ZProbe triggered before move">>
                  /\ gpc' = "g38_return"
                  /\ UNCHANGED <<savect, compensationTransform>>
             ELSE /\ savect' = compensationTransform
                  /\ compensationTransform' = "nullptr"
                  /\ IF ax = "none"
                     THEN /\ lines' = <<"error:at least one of X Y or Z">>
                          /\ gpc' = "g38_restore"
                     ELSE /\ lines' = <<>>
                          /\ gpc' = "g38_arm"
    /\ UNCHANGED <<g38Frame, actVars, steps_at_decel_end, has_exceeded_runout,
                   envVars, probing, probe_detected, fired, missed,
                   last_probe, halts, did>>
    /\ UNCHANGED moreVars

\* probe_XYZ: probing = true
G38Arm ==
    /\ gpc = "g38_arm"
    /\ probing' = TRUE
    /\ gpc' = "g38_clear"
    /\ UNCHANGED <<g38Frame, actVars, steps_at_decel_end, has_exceeded_runout,
                   envVars, hist, probe_detected, compensationTransform,
                   savect, subcode, axis, fired, missed, ct_before, outVars>>
    /\ UNCHANGED moreVars

\* probe_XYZ: probe_detected = false
G38Clear ==
    /\ gpc = "g38_clear"
    /\ probe_detected' = FALSE
    /\ fired' = FALSE
    /\ gpc' = "g38_plan"
    /\ UNCHANGED <<g38Frame, actVars, steps_at_decel_end, has_exceeded_runout,
                   envVars, hist, probing, compensationTransform, savect,
                   subcode, axis, missed, ct_before, outVars>>
    /\ UNCHANGED moreVars

\* the actuators a move along one axis drives
AxisActuators(ax) ==
    IF IsDeltaKin THEN Axes
    ELSE IF ax = "X" THEN {X_AXIS}
    ELSE IF ax = "Y" THEN {Y_AXIS} ELSE {Z_AXIS}

\* the planned move is on the actuators
PlannedMove(h, cs, d) ==
    [h EXCEPT !.stepped = [c \in Axes |-> IF c \in cs THEN 0 ELSE @[c]],
              !.togo = [c \in Axes |-> IF c \in cs THEN MaxDist ELSE @[c]],
              !.moving = [c \in Axes |-> IF c \in cs THEN TRUE ELSE @[c]],
              !.dirn = [c \in Axes |-> IF c \in cs THEN d ELSE @[c]]]

\* probe_XYZ: coordinated_move hands the relative move to the planner and
\* waits for the queue to empty
G38MoveStart ==
    /\ gpc = "g38_plan"
    /\ \E d \in BOOLEAN : SetHW(PlannedMove(HW, AxisActuators(axis), d))
    /\ gpc' = "g38_wait"
    /\ UNCHANGED <<g38Frame, slot, zpos, envVars, hist, probing,
                   probe_detected, compensationTransform, savect, subcode,
                   axis, fired, missed, ct_before, outVars>>
    /\ UNCHANGED moreVars

\* the step ticker on the planned move: every moving actuator steps
G38Step ==
    /\ gpc = "g38_wait"
    /\ \E c \in Axes : moving[c]
    /\ stepped' = [c \in Axes |-> IF moving[c] THEN stepped[c] + 1
                                   ELSE stepped[c]]
    /\ togo' = [c \in Axes |-> IF moving[c] THEN togo[c] - 1 ELSE togo[c]]
    /\ moving' = [c \in Axes |-> moving[c] /\ togo[c] > 1]
    /\ zpos' = IF moving[Z_AXIS]
               THEN (IF dirn[Z_AXIS] THEN zpos - 1 ELSE zpos + 1)
               ELSE zpos
    /\ UNCHANGED <<g38Frame, rate, dirn, slot, steps_at_decel_end,
                   has_exceeded_runout, envVars, hist, g38Vars, outVars>>
    /\ UNCHANGED moreVars

\* StepperMotor::force_finish_move on every actuator
ForceFinishAll(h) ==
    [h EXCEPT !.moving = [c \in Axes |-> FALSE],
              !.togo = [c \in Axes |-> 0]]

\* read_probe looks at the pin: a probe is on and has not detected yet
Armed == probing /\ ~probe_detected

\* The slow ticker's interrupt, read_probe.  missed records a sample taken
\* with the pin active while the planned move was running that stopped
\* nothing.
ReadProbe ==
    /\ IF Armed /\ pin
       THEN /\ probe_detected' = TRUE
            /\ fired' = TRUE
            /\ SetHW(ForceFinishAll(HW))
            /\ UNCHANGED missed
       ELSE /\ missed' = (missed \/ (pin /\ gpc = "g38_wait"
                                        /\ \E c \in Axes : moving[c]))
            /\ UNCHANGED <<probe_detected, fired, stepped, moving, rate,
                           togo, dirn, steps_at_decel_end,
                           has_exceeded_runout>>
    /\ UNCHANGED <<g38Frame, slot, zpos, envVars, hist, probing,
                   compensationTransform, savect, gpc, subcode, axis,
                   ct_before, outVars>>
    /\ UNCHANGED moreVars

\* probeok
ProbeOk == IF probe_detected THEN 1 ELSE 0

\* (the alarm raised for the silent subcode)
AlarmOnMiss_Silent(ok, sc) == ok = 0 /\ sc = 3

\* "issue error if probe was not triggered and subcode == 2"
AlarmOnMiss(ok, sc) == ok = 0 /\ sc = 2

\* probe_XYZ once the queue is empty: probing = false, the [PRB:...] line,
\* set_last_probe_position, then the alarm and the halt event or nothing
G38MoveEnd ==
    /\ gpc = "g38_wait"
    /\ \A c \in Axes : ~moving[c]
    /\ probing' = FALSE
    /\ last_probe' = Append(last_probe, ProbeOk)
    /\ IF AlarmOnMiss(ProbeOk, subcode)
       THEN /\ lines' = lines \o <<<<"PRB", ProbeOk>>, "ALARM:Probe fail">>
            /\ halts' = halts + 1
            /\ halted' = TRUE
       ELSE /\ lines' = Append(lines, <<"PRB", ProbeOk>>)
            /\ UNCHANGED <<halts, halted>>
    /\ gpc' = "g38_restore"
    /\ UNCHANGED <<g38Frame, actVars, steps_at_decel_end, has_exceeded_runout,
                   pin, hist, probe_detected, compensationTransform, savect,
                   subcode, axis, fired, missed, ct_before, did>>
    /\ UNCHANGED moreVars

\* (the transform left switched off)
RestoredTransform_Off == "nullptr"

\* "restore compensationTransform"
RestoredTransform == savect

G38Restore ==
    /\ gpc = "g38_restore"
    /\ compensationTransform' = RestoredTransform
    /\ gpc' = "g38_return"
    /\ UNCHANGED <<g38Frame, actVars, steps_at_decel_end, has_exceeded_runout,
                   envVars, hist, probing, probe_detected, savect, subcode,
                   axis, fired, missed, ct_before, outVars>>
    /\ UNCHANGED moreVars

\* on_gcode_received returns
G38Return ==
    /\ gpc = "g38_return"
    /\ gpc' = "idle"
    /\ savect' = "nullptr"
    /\ subcode' = 0
    /\ axis' = "none"
    /\ fired' = FALSE
    /\ missed' = FALSE
    /\ ct_before' = compensationTransform
    /\ lines' = <<>>
    /\ last_probe' = <<>>
    /\ halts' = 0
    /\ did' = {}
    /\ hist' = [NoHist EXCEPT !.runs = hist.runs]
    /\ UNCHANGED <<g38Frame, actVars, steps_at_decel_end, has_exceeded_runout,
                   envVars, probing, probe_detected, compensationTransform>>
    /\ UNCHANGED moreVars

\* Any kinematics; a compensation transform installed or not; probe_detected
\* is not written before the first straight probe
InitG38 ==
    /\ Kinematics
    /\ decelerate_runout = RunoutUnset
    /\ decelerate_on_trigger = FALSE
    /\ debounce_count = 0
    /\ reverse_z = FALSE
    /\ steps_per_mm = 100
    /\ rate_step = [c \in Axes |-> 1]
    /\ probe_smoothing = 1
    /\ InitRest
    /\ runout_steps = 0
    /\ steps_at_decel_end = 0
    /\ running = FALSE
    /\ trim = [c \in Axes |-> 0]
    /\ delta_radius = 0
    /\ machine = [base |-> [c \in Axes |-> 0], cbase |-> 0, gain |-> 0,
                  rgain |-> 0, endstops |-> TRUE, optional |-> TRUE]
    /\ CalIdle
    /\ InitGeo
    /\ probing = FALSE
    /\ probe_detected \in BOOLEAN
    /\ compensationTransform \in Transforms
    /\ ct_before = compensationTransform
    /\ savect = "nullptr"
    /\ gpc = "idle"
    /\ subcode = 0
    /\ axis = "none"
    /\ fired = FALSE
    /\ missed = FALSE

NextG38 ==
    \/ StartG38
    \/ G38Arm
    \/ G38Clear
    \/ G38MoveStart
    \/ G38Step
    \/ ReadProbe
    \/ G38MoveEnd
    \/ G38Restore
    \/ G38Return
    \/ PinFlip

SpecG38 == InitG38 /\ [][NextG38]_vars

\* ------------------------------------------------------- the halt flag
(***************************************************************************)
(* SpecHalt: the probe cycles of G30 with the kill that sets the kernel's   *)
(* halt flag at any moment, and the idle yields of the loop that waits for *)
(* the deceleration to stop.                                               *)
(***************************************************************************)
\* a kill: THEKERNEL->is_halted() reads true from now on
Halt ==
    /\ ~halted
    /\ halted' = TRUE
    /\ UNCHANGED <<cfgVars, actVars, zpVars, pin, fgVars, hist>>
    /\ UNCHANGED calVars

\* One pass of the "wait for decel to stop" loop while an actuator moves:
\* the idle yield, after which the loop reads the actuators only; hist
\* records that a yield was made with the halt flag set
WfpWaitYield ==
    /\ pc = "wfp_wait"
    /\ DecelWaiting
    /\ hist' = [hist EXCEPT !.haltYield = @ \/ halted]
    /\ UNCHANGED <<cfgVars, actVars, zpVars, envVars, fgVars>>
    /\ UNCHANGED calVars

NextHalt ==
    \/ AccelTick
    \/ StepTick
    \/ PinFlip
    \/ StartG30
    \/ RunProbe
    \/ WfpPoll
    \/ WfpMode
    \/ WfpRunout
    \/ WfpWait
    \/ WfpWaitYield
    \/ AfterG30
    \/ Finish
    \/ Halt

SpecHalt == InitPoll /\ [][NextHalt]_vars

\* ----------------------------------------------- G29, the repeatability test
(***************************************************************************)
(* SpecRT: handleConfig, measure_probe_repeatability (G29) and do_probe_at *)
(* of the comprehensive delta strategy.  A probe cycle (run_probe) is one  *)
(* step here: it fails, or it yields a step count.  mu is kept as the sum  *)
(* of the accepted samples.  Accelerations are whole mm/s^2, which         *)
(* "M204 S%1.5f" writes and the planner reads back unchanged.              *)
(***************************************************************************)
\* largest configured probe_smoothing and largest P word of G29
MaxP == 2
\* largest S word of G29 that is accepted
MaxSamples == 2

\* "if(nSamples > 30)"
SampleLimit == 30

\* "if(steps > 50000)": a sample above this is discarded
MaxSampleSteps == 50000

\* "int min=9999, max=0"
RangeMinStart == 9999
RangeMaxStart == 0

\* the bounds probe_smoothing is clamped to
SmoothingMin == 1
SmoothingMax == 10

\* probe_acceleration of the configuration, mm/s^2
ProbeAcceleration == 100

\* the step counts a probe cycle can yield: below do_probe_at's floor, above
\* the start value of min, above the discard limit
StepSamples == {MinProbeSteps - 1, RangeMinStart + 1, MaxSampleSteps + 1}

\* the values of the S word: a number of samples, or one too many
SValues == (1..MaxSamples) \cup {SampleLimit + 1}

\* "if(ps < 1) ps = 1; if(ps > 10) ps = 10"
ClampSmoothing(p) ==
    IF p < SmoothingMin THEN SmoothingMin
    ELSE IF p > SmoothingMax THEN SmoothingMax ELSE p

\* the A word: taken when it lies in 1..1000
WantAcceleration(a) == IF a < 1 \/ a > 1000 THEN ProbeAcceleration ELSE a

\* what handleConfig, G29 and do_probe_at leave alone
rtFrame == <<actVars, zpVars, envVars, hist, calOwn, entVars, g38Vars,
             queVars, mapVars>>

geoRest == <<arm, options, fres, last_set, pos_resets, geo_ops>>
cfgRest == <<is_delta, is_rdelta, decelerate_runout, reverse_z, steps_per_mm,
             rate_step>>

\* handleConfig: probe_from_height = -1, the dirty flag, the depth maps
\* zeroed, probe_smoothing clamped
HandleConfig ==
    /\ pc = "idle"
    /\ rpc = "idle"
    /\ mpc = "idle"
    /\ todo = <<>>
    /\ cur_depth_map' = ZeroMap
    /\ last_depth_map' = ZeroMap
    /\ UNCHANGED <<mpc, origin_steps, mi, acq>>
    /\ \E ps \in 0..MaxP : probe_smoothing' = ClampSmoothing(ps)
    /\ geom_dirty' = TRUE
    /\ pfh_known' = FALSE
    /\ UNCHANGED <<cfgRest, decelerate_on_trigger, debounce_count, fgVars,
                   geoRest, outVars, rtVars, queued, todo, probe_q>>
    /\ UNCHANGED <<actVars, zpVars, envVars, hist, calOwn, entVars, g38Vars>>

\* measure_probe_repeatability up to the sample loop: the words A, B, D, P
\* and S (a word that is absent is the case of the value already there), the
\* refusal of too many samples, the clamp, save_acceleration and
\* set_acceleration
RtStart ==
    /\ pc = "idle"
    /\ rpc = "idle"
    /\ PinGate
    /\ \E a \in 0..1, b \in 0..MaxDebounce, t \in BOOLEAN, p \in 0..MaxP,
          s \in SValues :
          /\ debounce_count' = b
          /\ decelerate_on_trigger' = DecelFlag(decelerate_runout, t)
          /\ nSamples' = s
          /\ IF s > SampleLimit
             THEN /\ probe_smoothing' = p
                  /\ rpc' = "rt_rejected"
                  /\ UNCHANGED <<sample, acceleration, saved_acceleration>>
             ELSE /\ probe_smoothing' = ClampSmoothing(p)
                  /\ sample' = [j \in 1..s |-> 0]
                  /\ saved_acceleration' = acceleration
                  /\ acceleration' = WantAcceleration(a)
                  /\ rpc' = "rt_loop"
    /\ UNCHANGED <<cfgRest, fgVars, geoVars, outVars, ri, mu, rmin, rmax,
                   cycles, returns, accepted, range, rtFrame>>

\* do_probe_at is entered: the move to the point, steps = 0
DpaEnter(c) ==
    /\ pc' = "dpa_loop"
    /\ cmd' = c
    /\ steps' = 0
    /\ rep' = 0
    /\ sum' = 0
    /\ cycles' = 0
    /\ returns' = 0
    /\ UNCHANGED <<debounce, r, reverse, outcome>>

\* the top of the sample loop: the next do_probe_at, or the loop is over
RtSample ==
    /\ rpc = "rt_loop"
    /\ IF ri < nSamples
       THEN DpaEnter("G29") /\ rpc' = "rt_probe"
       ELSE UNCHANGED <<fgVars, cycles, returns>> /\ rpc' = "rt_stats"
    /\ UNCHANGED <<cfgVars, geoVars, outVars, nSamples, ri, sample, mu, rmin,
                   rmax, acceleration, saved_acceleration, accepted, range,
                   rtFrame>>

\* a calibration of the strategy calls do_probe_at
DpaCall ==
    /\ pc = "idle"
    /\ rpc = "idle"
    /\ PinGate
    /\ DpaEnter("do_probe_at")
    /\ UNCHANGED <<cfgVars, geoVars, outVars, rpc, nSamples, ri, sample, mu,
                   rmin, rmax, acceleration, saved_acceleration, accepted,
                   range, rtFrame>>

\* One pass of do_probe_at's loop: the probe cycle, and when it triggered
\* the return move and the accumulator
DpaCycle ==
    /\ pc = "dpa_loop"
    /\ rep < probe_smoothing
    /\ cycles' = cycles + 1
    /\ \E ok \in BOOLEAN, res \in StepSamples :
          IF ~ok
          THEN /\ r' = FALSE
               /\ pc' = "dpa_ret"
               /\ UNCHANGED <<steps, rep, sum, returns>>
          ELSE /\ returns' = returns + 1
               /\ steps' = steps + res
               /\ sum' = sum + res
               /\ rep' = rep + 1
               /\ UNCHANGED <<r, pc>>
    /\ UNCHANGED <<cfgVars, geoVars, outVars, debounce, cmd, reverse,
                   outcome, rpc, nSamples, ri, sample, mu, rmin, rmax,
                   acceleration, saved_acceleration, accepted, range,
                   rtFrame>>

\* "steps /= probe_smoothing"
Average(total, k) == total \div k

\* The loop is over: the average and the sanity check.  With probe_smoothing
\* 0 the division is by zero: the quotient the processor yields then is 0,
\* or it faults.
DpaAverage ==
    /\ pc = "dpa_loop"
    /\ ~(rep < probe_smoothing)
    /\ IF probe_smoothing = 0
       THEN \E fault \in BOOLEAN :
               IF fault
               THEN pc' = "fault" /\ UNCHANGED <<steps, r>>
               ELSE pc' = "dpa_ret" /\ steps' = 0 /\ r' = FALSE
       ELSE /\ steps' = Average(steps, probe_smoothing)
            /\ r' = ~(Average(steps, probe_smoothing) < MinProbeSteps)
            /\ pc' = "dpa_ret"
    /\ UNCHANGED <<cfgVars, geoVars, outVars, debounce, cmd, reverse, rep,
                   sum, outcome, rtVars, rtFrame>>

\* do_probe_at's frame is left
DpaLeave ==
    /\ pc' = "idle"
    /\ cmd' = "none"
    /\ steps' = 0
    /\ r' = FALSE
    /\ rep' = 0
    /\ sum' = 0
    /\ cycles' = 0
    /\ returns' = 0
    /\ UNCHANGED <<debounce, reverse, outcome>>

\* the calibration has its result
DpaReturn ==
    /\ pc = "dpa_ret"
    /\ cmd = "do_probe_at"
    /\ DpaLeave
    /\ UNCHANGED <<cfgVars, geoVars, outVars, rpc, nSamples, ri, sample, mu,
                   rmin, rmax, acceleration, saved_acceleration, accepted,
                   range, rtFrame>>

\* (no sample is ever discarded)
Discarded_Never(s) == FALSE

\* "if(steps > 50000)": discard the result and try again
Discarded(s) == s > MaxSampleSteps

\* The sample loop after do_probe_at: store the sample, then discard it
\* (i--, and the loop's i++ probes the slot again) or add it to mu; a failed
\* do_probe_at ends the test with return false
RtProbed ==
    /\ pc = "dpa_ret"
    /\ cmd = "G29"
    /\ rpc = "rt_probe"
    /\ IF r
       THEN /\ sample' = [sample EXCEPT ![ri + 1] = steps]
            /\ rpc' = "rt_loop"
            /\ IF Discarded(steps)
               THEN /\ did' = did \cup {"discard"}
                    /\ UNCHANGED <<ri, mu, accepted>>
               ELSE /\ mu' = mu + steps
                    /\ ri' = ri + 1
                    /\ accepted' = Append(accepted, steps)
                    /\ UNCHANGED did
       ELSE /\ rpc' = "rt_failed"
            /\ UNCHANGED <<sample, ri, mu, accepted, did>>
    /\ DpaLeave
    /\ UNCHANGED <<cfgVars, geoVars, lines, last_probe, halts, nSamples,
                   rmin, rmax, acceleration, saved_acceleration, range,
                   rtFrame>>

RECURSIVE MinFrom(_, _)
\* "if(sample[i] < min) min = sample[i]" over the samples, from a start value
MinFrom(m, s) ==
    IF s = <<>> THEN m
    ELSE MinFrom(IF Head(s) < m THEN Head(s) ELSE m, Tail(s))

RECURSIVE MaxFrom(_, _)
\* "if(sample[i] > max) max = sample[i]" over the samples, from a start value
MaxFrom(m, s) ==
    IF s = <<>> THEN m
    ELSE MaxFrom(IF Head(s) > m THEN Head(s) ELSE m, Tail(s))

\* The statistics: min and max over sample[0..nSamples-1], the range that is
\* printed and classified, then restore_acceleration and return true
RtStats ==
    /\ rpc = "rt_stats"
    /\ rmin' = MinFrom(RangeMinStart, sample)
    /\ rmax' = MaxFrom(RangeMaxStart, sample)
    /\ range' = MaxFrom(RangeMaxStart, sample) - MinFrom(RangeMinStart, sample)
    /\ acceleration' = saved_acceleration
    /\ rpc' = "rt_done"
    /\ UNCHANGED <<cfgVars, fgVars, geoVars, outVars, nSamples, ri, sample,
                   mu, saved_acceleration, cycles, returns, accepted,
                   rtFrame>>

\* measure_probe_repeatability has returned: its locals are gone
RtReturn ==
    /\ rpc \in {"rt_rejected", "rt_failed", "rt_done"}
    /\ rpc' = "idle"
    /\ nSamples' = 0
    /\ ri' = 0
    /\ sample' = <<>>
    /\ mu' = 0
    /\ rmin' = 0
    /\ rmax' = 0
    /\ accepted' = <<>>
    /\ range' = 0
    /\ did' = {}
    /\ UNCHANGED <<cfgVars, fgVars, geoVars, lines, last_probe, halts,
                   acceleration, saved_acceleration, cycles, returns,
                   rtFrame>>

\* The configuration of SpecRT: a linear delta without deceleration, the
\* state handleConfig leaves
InitRT ==
    /\ is_delta = TRUE
    /\ is_rdelta = FALSE
    /\ decelerate_runout = RunoutUnset
    /\ decelerate_on_trigger = FALSE
    /\ debounce_count \in 0..MaxDebounce
    /\ reverse_z = FALSE
    /\ steps_per_mm = 100
    /\ rate_step = [c \in Axes |-> 1]
    /\ \E ps \in 0..MaxP : probe_smoothing = ClampSmoothing(ps)
    /\ InitRest
    /\ InitNoCal

NextRT ==
    \/ HandleConfig
    \/ RtStart
    \/ RtSample
    \/ DpaCall
    \/ DpaCycle
    \/ DpaAverage
    \/ DpaReturn
    \/ RtProbed
    \/ RtStats
    \/ RtReturn

SpecRT == InitRT /\ [][NextRT]_vars

\* ----------------------------------------------------- the planner queue
(***************************************************************************)
(* SpecQueue: the commands that probe, as the sequence of the steps they   *)
(* make on the planner queue: a move planned through the console line, a   *)
(* wait for the empty queue, a homing, a probe cycle.  The conveyor        *)
(* executes planned moves at any moment; the user's own moves are queued   *)
(* between commands.  "catch" marks the place where the caller of          *)
(* find_bed_center_height goes on when a probe has failed.                 *)
(***************************************************************************)
\* planned moves the queue can hold
MaxQueue == 2
\* largest probe_smoothing of the commands of this specification
MaxCycles == 2

\* (coordinated_move returning as soon as the move is planned)
CoordinatedMove_NoWait == <<"plan">>

\* coordinated_move: the console line, then wait_for_empty_queue
CoordinatedMove == <<"plan", "wait">>

RECURSIVE Times(_, _)
Times(s, n) == IF n = 0 THEN <<>> ELSE s \o Times(s, n - 1)

\* do_probe_at: the move to the point, then probe and return k times
DoProbeAtOps(k) ==
    CoordinatedMove \o Times(<<"probe@do_probe_at">> \o CoordinatedMove, k)

\* ZProbe::doProbeAt: move, probe, return
ZDoProbeAtOps == CoordinatedMove \o <<"probe@doProbeAt">> \o CoordinatedMove

\* G30: wait for the empty queue, probe, and return unless Z is reset
G30Ops(hasZ) ==
    <<"wait", "probe@G30">> \o (IF hasZ THEN <<>> ELSE CoordinatedMove)

\* find_bed_center_height: home; the first time the fast probe whose result
\* is not tested, and home again; two moves, the slow probe, M665 Z and the
\* wait
FindBedCenterHeightOps(known) ==
    <<"home">>
    \o (IF known THEN <<>> ELSE <<"probe@fbch_fast", "home">>)
    \o CoordinatedMove \o CoordinatedMove
    \o <<"probe@fbch_slow", "wait", "catch">>

\* prepare_to_probe: find_bed_center_height when probe_from_height is -1
\* (its result is not tested), home, the move to the probing height
PrepareToProbeOps(known) ==
    (IF known THEN <<>> ELSE FindBedCenterHeightOps(known))
    \o <<"home">> \o CoordinatedMove

\* G29: prepare_to_probe, set_acceleration, one sample (the six moves of the
\* eccentricity test unless E, do_probe_at), restore_acceleration
G29Ops(known, ecc, k) ==
    PrepareToProbeOps(known) \o <<"wait">>
    \o (IF ecc THEN Times(CoordinatedMove, 6) ELSE <<>>)
    \o DoProbeAtOps(k) \o <<"wait">>

\* G32: the wait, then prepare_to_probe and the probes of the three towers
G32Ops(known, k) ==
    <<"wait">> \o PrepareToProbeOps(known)
    \o DoProbeAtOps(k) \o DoProbeAtOps(k) \o DoProbeAtOps(k)

ProbeOps == {"probe@G30", "probe@doProbeAt", "probe@do_probe_at",
             "probe@fbch_fast", "probe@fbch_slow"}

RECURSIVE AfterCatch(_)
\* where a command goes on after a probe has failed: behind the next
\* "catch", or nowhere
AfterCatch(s) ==
    IF s = <<>> THEN <<>>
    ELSE IF Head(s) = "catch" THEN Tail(s) ELSE AfterCatch(Tail(s))

\* the steps left once a "catch" that was not needed is passed
Rest(s) == IF s # <<>> /\ Head(s) = "catch" THEN Tail(s) ELSE s

queFrame == <<cfgVars, actVars, zpVars, envVars, fgVars, hist, calOwn,
              geoVars, entVars, g38Vars, outVars, rtVars, mapVars>>

\* the user's G0/G1 between commands: one more planned move
UserMove ==
    /\ todo = <<>>
    /\ queued < MaxQueue
    /\ queued' = queued + 1
    /\ probe_q' = [probe_q EXCEPT !.now = FALSE]
    /\ UNCHANGED <<todo, pfh_known, queFrame>>

\* the conveyor has executed a planned move
ConveyorRun ==
    /\ queued > 0
    /\ queued' = queued - 1
    /\ UNCHANGED <<todo, pfh_known, probe_q, queFrame>>

\* a command that probes is received
StartCommand ==
    /\ todo = <<>>
    /\ pc = "idle"
    /\ rpc = "idle"
    /\ PinGate
    /\ \E c \in {"G30", "doProbeAt", "G29", "G32"}, w \in BOOLEAN,
          k \in 0..MaxCycles :
          todo' = CASE c = "G30" -> G30Ops(w)
                    [] c = "doProbeAt" -> ZDoProbeAtOps
                    [] c = "G29" -> G29Ops(pfh_known, w, k)
                    [] c = "G32" -> G32Ops(pfh_known, k)
    /\ UNCHANGED <<queued, pfh_known, probe_q, queFrame>>

\* call_event(ON_CONSOLE_LINE_RECEIVED) with a G0: the move is planned
PlanMove ==
    /\ todo # <<>>
    /\ Head(todo) = "plan"
    /\ queued < MaxQueue + 1
    /\ queued' = queued + 1
    /\ probe_q' = [probe_q EXCEPT !.now = FALSE]
    /\ todo' = Rest(Tail(todo))
    /\ UNCHANGED <<pfh_known, queFrame>>

\* THEKERNEL->conveyor->wait_for_empty_queue() returns
WaitForEmptyQueue ==
    /\ todo # <<>>
    /\ Head(todo) = "wait"
    /\ queued = 0
    /\ probe_q' = [probe_q EXCEPT !.now = TRUE]
    /\ todo' = Rest(Tail(todo))
    /\ UNCHANGED <<queued, pfh_known, queFrame>>

\* ZProbe::home: G28 as the homing module handles it, waiting for the empty
\* queue and then moving the actuators itself
Home ==
    /\ todo # <<>>
    /\ Head(todo) = "home"
    /\ queued = 0
    /\ probe_q' = [probe_q EXCEPT !.now = TRUE]
    /\ todo' = Rest(Tail(todo))
    /\ UNCHANGED <<queued, pfh_known, queFrame>>

\* run_probe: the actuators are moved directly.  The fast probe of
\* find_bed_center_height is not tested and sets probe_from_height; any
\* other probe that fails ends its caller.
RunProbeCycle ==
    /\ todo # <<>>
    /\ Head(todo) \in ProbeOps
    /\ probe_q' = [probe_q EXCEPT !.site = Head(todo), !.q = queued,
                                  !.drained = probe_q.now]
    /\ \E ok \in BOOLEAN :
          IF Head(todo) = "probe@fbch_fast"
          THEN todo' = Tail(todo) /\ pfh_known' = TRUE
          ELSE /\ todo' = IF ok THEN Rest(Tail(todo)) ELSE AfterCatch(todo)
               /\ UNCHANGED pfh_known
    /\ UNCHANGED <<queued, queFrame>>

NextQueue ==
    \/ UserMove
    \/ ConveyorRun
    \/ StartCommand
    \/ PlanMove
    \/ WaitForEmptyQueue
    \/ Home
    \/ RunProbeCycle
    \/ HandleConfig

SpecQueue == InitRT /\ [][NextQueue]_vars

\* ------------------------------------------- the probe in both directions
(***************************************************************************)
(* SpecRev: the single probes of SpecPoll on a cartesian machine with      *)
(* either setting of reverse_z.                                            *)
(***************************************************************************)
InitRev ==
    /\ is_delta = FALSE
    /\ is_rdelta = FALSE
    /\ InitDecel
    /\ debounce_count \in 0..MaxDebounce
    /\ reverse_z \in BOOLEAN
    /\ steps_per_mm = 100
    /\ \E i \in 1..SlotsPerTick : rate_step = [c \in Axes |-> i]
    /\ probe_smoothing = 1
    /\ InitRest
    /\ InitNoCal

SpecRev == InitRev /\ [][NextPoll]_vars

\* ------------------------------------------------ the accelerating phase
(***************************************************************************)
(* SpecAcc: the single probes of SpecPoll on cartesian and linear delta    *)
(* machines whose Z acceleration may differ from the planner's.            *)
(***************************************************************************)
InitAcc ==
    /\ is_delta \in BOOLEAN
    /\ is_rdelta = FALSE
    /\ InitDecel
    /\ debounce_count = 0
    /\ reverse_z = FALSE
    /\ steps_per_mm = 100
    /\ \E iz \in 1..SlotsPerTick, ixy \in 1..SlotsPerTick :
          /\ rate_step = [c \in Axes |-> IF c = Z_AXIS THEN iz ELSE ixy]
          /\ (~IsDeltaKin) => ixy = iz
    /\ probe_smoothing = 1
    /\ InitRest
    /\ InitNoCal

SpecAcc == InitAcc /\ [][NextPoll]_vars

\* ------------------------------------------------ deceleration terminates
(***************************************************************************)
(* SpecLive: G30 cycles with decelerate_on_trigger on every kinematics,    *)
(* with accelerations whose per-tick rate change may round down to 0.      *)
(* The acceleration ticker and                                             *)
(* the step ticker are timer interrupts and the foreground loop keeps      *)
(* running: each of them is taken if it stays enabled.                     *)
(***************************************************************************)
InitLive ==
    /\ Kinematics
    /\ decelerate_runout = MaxRunout
    /\ decelerate_on_trigger = DecelFlag(decelerate_runout, TRUE)
    /\ debounce_count = 0
    /\ reverse_z = FALSE
    /\ steps_per_mm = 100
    /\ \E i \in 0..SlotsPerTick : rate_step = [c \in Axes |-> i]
    /\ probe_smoothing = 1
    /\ InitRest
    /\ ~running
    /\ steps_at_decel_end = 0
    /\ InitNoCal

NextLive ==
    \/ AccelTick
    \/ StepTick
    \/ PinFlip
    \/ StartG30
    \/ RunProbe
    \/ WfpPoll
    \/ WfpMode
    \/ WfpRunout
    \/ WfpWait
    \/ AfterG30
    \/ Finish

SpecLive ==
    /\ InitLive
    /\ [][NextLive]_vars
    /\ WF_vars(AccelTick)
    /\ WF_vars(StepTick)
    /\ WF_vars(WfpWait)

\* ---------------------------------------------------------- the depth map
(***************************************************************************)
(* SpecMap: G31.  heuristic_calibration acquires a depth map with          *)
(* depth_map_print_surface (the centre, then each test point, by           *)
(* do_probe_at) and saves it with save_depth_map.  require_clean_geometry, *)
(* print_geometry and prepare_to_probe, which come first, leave the maps   *)
(* alone.                                                                  *)
(***************************************************************************)
\* one more than the largest averaged step count do_probe_at hands back
\* above its sanity limit
MaxDepthSpread == 1

DepthSteps == MinProbeSteps..(MinProbeSteps + MaxDepthSpread)

mapFrame == <<cfgVars, actVars, zpVars, envVars, fgVars, hist, calOwn,
              geoVars, entVars, g38Vars, outVars, rtVars, queVars>>

\* handleGcode, G31: heuristic_calibration calls depth_map_print_surface
MapStart ==
    /\ mpc = "idle"
    /\ pc = "idle"
    /\ rpc = "idle"
    /\ todo = <<>>
    /\ PinGate
    /\ mpc' = "dm_center"
    /\ acq' = [before |-> last_depth_map, stored |-> <<>>, failed |-> FALSE]
    /\ UNCHANGED <<origin_steps, mi, cur_depth_map, last_depth_map, mapFrame>>

\* do_probe_at(origin_steps, 0, 0): false ends depth_map_print_surface
MapCenter ==
    /\ mpc = "dm_center"
    /\ \E ok \in BOOLEAN, s \in DepthSteps :
          IF ok
          THEN /\ origin_steps' = s
               /\ mi' = 0
               /\ mpc' = "dm_points"
               /\ UNCHANGED acq
          ELSE /\ mpc' = "dm_returned"
               /\ acq' = [acq EXCEPT !.failed = TRUE]
               /\ UNCHANGED <<origin_steps, mi>>
    /\ UNCHANGED <<cur_depth_map, last_depth_map, mapFrame>>

\* cur_depth_map[i] = origin_steps - steps
Depth(origin, s) == origin - s

\* one pass of the loop over the test points: do_probe_at, false ends
\* depth_map_print_surface, true stores the depth; the pass after the last
\* point returns true
MapPoint ==
    /\ mpc = "dm_points"
    /\ IF mi = MapPoints
       THEN /\ mpc' = "dm_returned"
            /\ UNCHANGED <<mi, cur_depth_map, acq>>
       ELSE \E ok \in BOOLEAN, s \in DepthSteps :
               IF ok
               THEN /\ cur_depth_map' =
                          [cur_depth_map EXCEPT ![mi + 1] = Depth(origin_steps, s)]
                    /\ acq' = [acq EXCEPT
                                 !.stored = Append(@, origin_steps - s)]
                    /\ mi' = mi + 1
                    /\ UNCHANGED mpc
               ELSE /\ mpc' = "dm_returned"
                    /\ acq' = [acq EXCEPT !.failed = TRUE]
                    /\ UNCHANGED <<mi, cur_depth_map>>
    /\ UNCHANGED <<origin_steps, last_depth_map, mapFrame>>

\* heuristic_calibration after depth_map_print_surface, whose result it
\* does not test: save_depth_map
SaveDepthMap ==
    /\ mpc = "dm_returned"
    /\ last_depth_map' = cur_depth_map
    /\ cur_depth_map' = ZeroMap
    /\ mpc' = "hc_saved"
    /\ UNCHANGED <<origin_steps, mi, acq, mapFrame>>

\* heuristic_calibration returns
MapReturn ==
    /\ mpc = "hc_saved"
    /\ mpc' = "idle"
    /\ origin_steps' = 0
    /\ mi' = 0
    /\ acq' = NoAcq
    /\ UNCHANGED <<cur_depth_map, last_depth_map, mapFrame>>

NextMap ==
    \/ MapStart
    \/ MapCenter
    \/ MapPoint
    \/ SaveDepthMap
    \/ MapReturn
    \/ HandleConfig

SpecMap == InitRT /\ [][NextMap]_vars

\* --------------------------------------- the endstop calibration, repeated
(***************************************************************************)
(* SpecTwice: G32 on the machines of SpecCal, and G32 E K given right      *)
(* after a G32 K whose endstop calibration has returned true.              *)
(***************************************************************************)
\* handleGcode, G32 E K: the endstop calibration alone, from the stored
\* trims
StartG32Again ==
    /\ cpc = "idle"
    /\ pc = "idle"
    /\ PinGate
    /\ hist.runs = MaxRuns
    /\ hist.first.ok
    /\ hasR' = FALSE
    /\ hasE' = TRUE
    /\ keep' = TRUE
    /\ cpc' = "es_setup"
    /\ hist' = [hist EXCEPT !.runs = @ + 1]
    /\ UNCHANGED <<probeVars, trim, delta_radius, machine, trimxyz, trimscale,
                   last_deviation, deviation, tz, iter, cmm, dlast, es_ok,
                   dr_ok, announced>>

NextTwice ==
    \/ NextCal
    \/ StartG32Again

SpecTwice == InitCal /\ [][NextTwice]_vars

\* ----------------------------------------------------------------- claims
\* C1: after every triggered probe cycle that is followed by its return
\* move (G30 without Z, doProbeAt, each repetition of do_probe_at), with
\* deceleration off or on, the Z actuator is back at the position it had
\* when the cycle started.
C1_ReturnRestoresZ == (outcome = "returned") => (zpos = 0)

\* C2: every probe cycle that reports a trigger with decelerate_on_trigger
\* enabled leaves steps_at_trigger <= steps_at_decel_end <=
\* steps_at_trigger + decelerate_runout * steps_per_mm + 1 for the
\* foreground to read.
C2_DecelEndWithinRunout ==
    (pc = "after" /\ r /\ decelerate_on_trigger) =>
        /\ steps <= steps_at_decel_end
        /\ steps_at_decel_end <= steps + decelerate_runout + 1

\* C3 as stated: with debounce_count = N >= 1 the trigger is declared on the
\* N-th consecutive active read, and on the first active read when N = 0.
C3_TriggerOnNth ==
    (pc = "wfp_mode") =>
        hist.activeReads = (IF debounce_count = 0 THEN 1 ELSE debounce_count)

\* C3 as amended: the debounce counter equals the number of consecutive
\* active reads of the cycle while it polls (an inactive read puts both back
\* to 0) and never exceeds debounce_count; the trigger is declared on the
\* (debounce_count + 1)-th consecutive active read, for every
\* debounce_count >= 0.
C3_TriggerOnNPlusFirst ==
    /\ (pc = "wfp_poll") =>
          (debounce = hist.activeReads /\ debounce <= debounce_count)
    /\ (pc = "wfp_mode") => (hist.activeReads = debounce_count + 1)

C3_Witness ==
    /\ pc = "wfp_mode"
    /\ debounce_count = 1
    /\ hist.activeReads = 2

\* C4: a probe cycle is refused, and no actuator is set in motion, whenever
\* the pin reads active when run_probe is entered.
C4_RefusedWhenActive ==
    [][(pc = "run_probe" /\ pin) => (\A c \in Axes : ~moving'[c])]_vars

\* C5: the trigger step count is the Z step counter at the poll that passes
\* the debounce test, taken before any stop or deceleration command (the
\* poll leaves the actuators and the accelerating flag as they were), and
\* nothing changes it until run_probe has returned.
C5_TriggerSampleKept ==
    [][/\ (pc = "wfp_poll" /\ pc' = "wfp_mode") =>
             /\ steps' = stepped[Z_AXIS]
             /\ UNCHANGED <<stepped, moving, rate, togo, accelerating>>
       /\ (pc \in {"wfp_mode", "wfp_runout", "wfp_wait"}) => steps' = steps
      ]_vars

C5_Witness ==
    /\ pc = "after"
    /\ r
    /\ decelerate_on_trigger
    /\ steps > 0
    /\ steps_at_decel_end > steps

\* C6: the overrun flag of a cycle is raised only by a tick of that cycle's
\* deceleration in which a moving actuator's step counter has reached
\* steps_at_trigger + decelerate_runout * steps_per_mm.
C6_OverrunOnlyAtLimit ==
    [][(~has_exceeded_runout /\ has_exceeded_runout') =>
          \E c \in TickedAxes :
              moving[c] /\ stepped[c] >= steps + decelerate_runout]_vars

\* C7: in every reachable state decelerate_on_trigger implies
\* decelerate_runout >= 0, whether the flag was requested by the
\* configuration or by G29 D.
C7_DecelNeedsRunout == decelerate_on_trigger => (decelerate_runout >= 0)

\* C8: whenever calibrate_delta_endstops returns success the stored trims
\* have max(trim) = 0 and the tower-base depths probed last differ by at
\* most target, on every success path.
C8_SuccessNormalised ==
    (es_ok /\ cpc = AfterEndstops) =>
        /\ MaxOf(trim) = 0
        /\ MaxOf(tz) - MinOf(tz) <= target

\* C9: whenever calibrate_delta_radius returns success, and whenever G32
\* announces a completed calibration that included it, the last measured
\* d = centre depth - mean tower-base depth has |d| <= target.
C9_RadiusWithinTarget ==
    (dr_ok \/ (announced /\ ~hasE)) => WithinTarget(dlast)

\* C10: the main endstop loop never runs more than 20 iterations; when the
\* 20th still finds the deviation above target, calibrate_delta_endstops
\* returns failure (G32 goes no further and announces nothing), no halt is
\* raised, and the stored trims are the ones written at the start of the
\* 20th iteration: the adjustment computed after it stays in the locals.
C10_EndstopLoopBounded ==
    /\ (cpc = "es_loop") =>
          (iter \in 1..21 /\ hist.iters = iter - 1 /\ hist.setAt = iter - 1)
    /\ (cpc = "g32_done" /\ ~hasR /\ iter = 21) =>
          /\ ~es_ok /\ ~dr_ok /\ ~announced
          /\ ~halted
          /\ deviation > target
          /\ hist.iters = 20
          /\ hist.setAt = 20
          /\ trimxyz = Adjusted(trim, tz, trimscale)

C10_Witness ==
    /\ cpc = "g32_done"
    /\ ~hasR
    /\ iter = 21
    /\ hist.setAt = 20
    /\ trim # trimxyz

\* C11: G32 without skip flags runs require_clean_geometry, the endstop
\* calibration, the delta radius calibration and then clears the dirty flag:
\* when G32 has run both calibrations and both have returned true,
\* geom_dirty is false.
C11_G32ClearsDirty ==
    (cpc = "g32_done" /\ rcg_phase = "none" /\ ~hasR /\ ~hasE
        /\ es_ok /\ dr_ok) => ~geom_dirty

\* C12: the dirty flag goes from true to false only when an endstop
\* calibration that returned true has been followed by a delta radius
\* calibration that returned true; when either has failed it stays true.
C12_ClearedOnlyOnSuccess ==
    [][(geom_dirty /\ ~geom_dirty') => (es_ok /\ dr_ok)]_vars

\* C14: an entry point of the strategy invoked with the dirty flag set
\* runs the implicit endstop and delta radius pair before any of its own
\* probe cycles.
C14_PairBeforeProbes ==
    (entry # "none" /\ entry_dirty /\ own_probed) => pair_done

\* C13: every write of a geometric scalar sets the dirty flag: after a
\* successful set_delta_basic_geometry, set_tower_radius_offsets,
\* set_tower_angle_offsets or set_tower_arm_offsets, and after an M665 that
\* carries one of A B C D E F T U V L R, geom_dirty is true; an M665 that
\* carries only Z leaves it as it was.
C13_WritesSetDirty ==
    [][(geo_ops' # geo_ops) =>
          /\ (fres'.op = "set" /\ fres'.ok) => geom_dirty'
          /\ (fres'.op = "m665" /\ fres'.letters \cap Letters # {})
                => geom_dirty'
          /\ (fres'.op = "m665" /\ fres'.letters \cap Letters = {})
                => (geom_dirty' = geom_dirty)]_vars

PrbLines == SelectSeq(lines, LAMBDA l : l \in {<<"PRB", 0>>, <<"PRB", 1>>})

\* C17: every G38.2/G38.3 that gets as far as switching the compensation
\* transform off leaves the transform pointer as it found it, on every exit
\* path: probe triggered, probe missed with alarm and halt event, no X, Y
\* or Z word.
C17_TransformRestored ==
    (gpc = "g38_return") => (compensationTransform = ct_before)

C17_Witness ==
    /\ gpc = "g38_return"
    /\ ct_before = "transform"
    /\ compensationTransform = "transform"
    /\ halts = 1
    /\ PrbLines = <<<<"PRB", 0>>>>

C19_ActiveSampleStops ==
    /\ ~missed
    /\ (gpc = "g38_restore" /\ fired) => (last_probe = <<1>>)

\* C20: every G30 that has passed the pin check records the last-probe
\* position exactly once: with flag 1 and a Z:<mm> C:<steps> line when the
\* probe cycle triggered, with flag 0 and "ZProbe not triggered" otherwise;
\* when triggered it then either resets the Z axis to the Z given (no return
\* move) or makes the return move, never both.
C20_RecordedOnce ==
    (pc = "done" /\ cmd = "G30") =>
        /\ Len(last_probe) = 1
        /\ r => /\ last_probe = <<1>>
                /\ lines = <<<<"Z:C:", steps>>>>
                /\ did \in {{"reset_axis_position"}, {"return_probe"}}
        /\ ~r => /\ last_probe = <<0>>
                 /\ lines = <<"ZProbe not triggered">>
                 /\ did = {}

C20_Witness ==
    /\ pc = "done"
    /\ cmd = "G30"
    /\ r
    /\ steps > 0
    /\ did = {"reset_axis_position"}
    /\ last_probe = <<1>>

\* C21: the halt flag is checked at every idle yield of a probe cycle, the
\* yields of the wait for the deceleration included: a cycle in which a
\* yield was made with the flag set returns not triggered.
C21_HaltEndsCycle ==
    [][/\ (halted /\ pc = "wfp_poll" /\ pc' # pc) => (pc' = "after" /\ ~r')
       /\ (hist.haltYield /\ pc = "wfp_wait" /\ pc' # pc) =>
             (pc' = "after" /\ ~r')]_vars

\* C22: after a trigger the foreground ends the cycle (running = false, the
\* outcome flags read) only when no probed actuator is moving: Z on a
\* cartesian machine, X, Y and Z with delta_homing and with rdelta_homing.
C22_StoppedWhenCycleEnds ==
    [][(pc \in {"wfp_mode", "wfp_wait"} /\ pc' = "after") =>
          (~running' /\ \A c \in TickedAxes : ~moving'[c])]_vars

\* C29: a probe cycle that ends because the commanded actuators stopped
\* without the probe triggering makes run_probe return false and hand the
\* step count 0 back to its caller.
C29_NoTriggerGivesZero ==
    [][(pc = "wfp_poll" /\ pc' = "after" /\ ~halted) =>
          (~r' /\ steps' = 0)]_vars

\* C30: G32 with R runs no endstop calibration (the trims are neither
\* zeroed nor written), G32 with E runs no delta radius calibration (the
\* delta radius is not written), and the delta radius calibration of a G32
\* starts only after an endstop calibration that was skipped or succeeded.
C30_SkipsAndStops ==
    [][/\ (hasR /\ rcg_phase = "none") =>
             (trim' = trim /\ cpc' \notin {"es_setup", "es_first", "es_loop"})
       /\ (hasE /\ rcg_phase = "none") =>
             (delta_radius' = delta_radius
                /\ cpc' \notin {"dr_center", "dr_loop"})
       /\ (cpc # "dr_center" /\ cpc' = "dr_center" /\ rcg_phase = "none") =>
             (hasR' \/ es_ok')]_vars

C30_Witness ==
    /\ cpc = "g32_done"
    /\ rcg_phase = "none"
    /\ hasR
    /\ ~hasE
    /\ ~keep
    /\ dr_ok
    /\ announced
    /\ trim # [c \in Axes |-> 0]
    /\ delta_radius # InitRadius

\* C24: probe_smoothing is in 1..10 in every state in which a probe can be
\* issued (no command running, or do_probe_at about to run a cycle), after
\* any sequence of configuration loads and G29 commands, a G29 refused for
\* its S value included; so do_probe_at never divides by zero.
C24_SmoothingInRange ==
    /\ (pc \in {"idle", "dpa_loop"} /\ rpc \in {"idle", "rt_probe"}) =>
          (probe_smoothing >= SmoothingMin /\ probe_smoothing <= SmoothingMax)
    /\ pc # "fault"

\* C25: do_probe_at with probe_smoothing = k returns, having run exactly k
\* probe cycles, each followed by a return move, the integer quotient of the
\* sum of the k step counts by k; it returns false if a cycle failed (no
\* further cycle is run, and the failed cycle has no return move) or if that
\* quotient is below 100 steps.
C25_SmoothedProbe ==
    /\ pc # "fault"
    /\ (pc = "dpa_ret") =>
          /\ probe_smoothing > 0
          /\ cycles <= probe_smoothing
          /\ IF returns = cycles
             THEN /\ cycles = probe_smoothing
                  /\ steps * probe_smoothing <= sum
                  /\ sum < (steps + 1) * probe_smoothing
                  /\ r = (steps >= MinProbeSteps)
             ELSE /\ returns = cycles - 1
                  /\ ~r

\* C26: on every exit of the repeatability test taken after the probing
\* acceleration was applied (completion, a failed probe in the sample loop)
\* the planner's acceleration is the value the test saved.
C26_AccelerationRestored ==
    (rpc \in {"rt_failed", "rt_done"}) => (acceleration = saved_acceleration)

\* C27: the range the repeatability test reports is max - min over the
\* accepted samples, also when every accepted sample is above 9999 steps.
C27_RangeIsMaxMinusMin ==
    (rpc = "rt_done") =>
        (\E lo \in {accepted[j] : j \in 1..Len(accepted)},
            hi \in {accepted[j] : j \in 1..Len(accepted)} :
            /\ \A j \in 1..Len(accepted) : lo <= accepted[j] /\ accepted[j] <= hi
            /\ range = hi - lo)

RECURSIVE SumOf(_)
SumOf(s) == IF s = <<>> THEN 0 ELSE Head(s) + SumOf(Tail(s))

\* C28: the statistics are computed over exactly nSamples accepted samples of
\* at most 50000 steps each: a result above 50000 steps is not among the
\* samples read, is not in mu, and its slot is probed again (the slot index
\* stays the number of samples accepted so far).
C28_OnlyAcceptedSamples ==
    /\ (rpc \in {"rt_loop", "rt_probe", "rt_stats"}) =>
          /\ ri = Len(accepted)
          /\ mu = SumOf(accepted)
          /\ \A j \in 1..Len(accepted) :
                accepted[j] <= MaxSampleSteps /\ sample[j] = accepted[j]
    /\ (rpc \in {"rt_stats", "rt_done"}) =>
          /\ Len(accepted) = nSamples
          /\ sample = accepted
          /\ mu = SumOf(accepted)
          /\ \A j \in 1..nSamples : sample[j] <= MaxSampleSteps
    /\ (rpc = "rt_done") => (rmax = MaxFrom(0, accepted))

C28_Witness ==
    /\ rpc = "rt_done"
    /\ nSamples = MaxSamples
    /\ "discard" \in did
    /\ Len(accepted) = nSamples
    /\ sample[1] # sample[2]

C32_ReturnOpposesProbe ==
    [][(pc = "after" /\ outcome' = "returned" /\ zpos' # zpos) =>
          ((zpos' > zpos) = ProbeDir)]_vars

\* C38: an acceleration tick runs decelerate() on a moving actuator only
\* when runout_steps holds the limit computed from this cycle's trigger
\* step count.
C38_RunoutLimitFresh ==
    [][(AccelTick /\ running /\ ~accelerating
           /\ \E c \in TickedAxes : moving[c]) =>
          (pc = "wfp_wait" /\ runout_steps = RunoutLimit(steps))]_vars

\* C40: whenever run_probe is not executing (before the first cycle, after
\* a cycle has returned by any path) running is false and accelerating is
\* true, and an acceleration tick then changes no actuator and writes
\* neither has_exceeded_runout nor steps_at_decel_end.
C40_TickInertOutsideCycle ==
    [][(pc \in {"idle", "after", "done"}) =>
          /\ ~running
          /\ accelerating
          /\ AccelTick =>
                UNCHANGED <<stepped, moving, rate, togo, dirn,
                            steps_at_decel_end, has_exceeded_runout>>]_vars

\* C36: in the accelerating phase of a probe cycle every acceleration tick
\* sets the rate of each moving actuator it handles to
\* min(target, rate + increment), the increment being that of the Z
\* acceleration for Z and of the planner's acceleration for X and Y: the
\* rate never exceeds the target and never decreases below it.
C36_AccelerateToTarget ==
    [][(AccelTick /\ running /\ accelerating) =>
          \A c \in TickedAxes :
             moving[c] =>
                /\ rate'[c] = Min(current_feedrate, rate[c] + rate_step[c])
                /\ rate'[c] <= current_feedrate
                /\ (rate[c] < current_feedrate) => (rate'[c] >= rate[c])]_vars

C36_Witness ==
    /\ running
    /\ accelerating
    /\ is_delta
    /\ moving[Z_AXIS]
    /\ moving[X_AXIS]
    /\ rate[Z_AXIS] = current_feedrate
    /\ rate_step[Z_AXIS] > rate_step[X_AXIS]
    /\ rate[X_AXIS] > 0
    /\ rate[X_AXIS] < current_feedrate

\* C35: once the foreground waits for the deceleration to stop, under fair
\* acceleration and step ticks every actuator the tick handler drives
\* eventually stops and the wait loop ends, whatever the acceleration
\* (also one whose per-tick decrement is 0).
C35_DecelerationEnds ==
    /\ (pc = "wfp_wait") ~> (\A c \in TickedAxes : ~moving[c])
    /\ (pc = "wfp_wait") ~> (pc = "after")

C35_Witness ==
    /\ pc = "wfp_wait"
    /\ moving[Z_AXIS]
    /\ rate_step[Z_AXIS] > 0
    /\ rate[Z_AXIS] > rate_step[Z_AXIS]
    /\ stepped[Z_AXIS] < runout_steps

\* C37: when heuristic_calibration has saved the current map as previous,
\* the previous map holds the depths of one acquisition in which the centre
\* and every point were probed, and the current map is zero; an
\* acquisition that failed part-way has left the previous map as it was.
C37_OnlyCompleteMapsSaved ==
    (mpc = "hc_saved") =>
        IF acq.failed
        THEN last_depth_map = acq.before
        ELSE /\ last_depth_map = acq.stored
             /\ Len(acq.stored) = MapPoints
             /\ cur_depth_map = ZeroMap

C34_TrimsNeverPositive ==
    [][/\ (cpc \in {"es_setup", "es_loop"}) => (\A c \in Axes : trim'[c] <= 0)
       /\ (cpc = "es_loop" /\ es_ok' /\ ~EsLoopDone(iter)) =>
             (MaxOf(trim') = 0)]_vars

C34_Witness ==
    /\ cpc = AfterEndstops
    /\ es_ok
    /\ keep
    /\ hist.setAt > 0
    /\ trim = trimxyz
    /\ MaxOf(trim) = 0
    /\ MinOf(trim) < 0

\* C31: the endstop calibration run with K right after an endstop
\* calibration with K that returned true ends within 2 iterations with the
\* deviation within target and the stored trims equal to the normalised
\* trims of the first run.  A run in which a probe failed has neither
\* returned true nor used up its iterations.
C31_SecondRunIdempotent ==
    (/\ hist.runs = MaxRuns + 1
     /\ cpc \in {"g32_announce", "g32_done"}
     /\ (es_ok \/ EsLoopDone(iter))) =>
        /\ es_ok
        /\ hist.iters <= 2
        /\ MaxOf(tz) - MinOf(tz) <= target
        /\ trim = Normalised(hist.first.trim)

\* C39: a facade setter changes only its own parameters: over a call of
\* set_delta_basic_geometry, set_tower_radius_offsets,
\* set_tower_angle_offsets or set_tower_arm_offsets, after any facade gets
\* and M665 commands, every parameter the setter does not name keeps the
\* value the arm solution held right before the call.
C39_SetterWritesOwnOnly ==
    [][(geo_ops' # geo_ops /\ fres'.op = "set") =>
          \A k \in Letters \ fres'.letters :
              IF k = "R" THEN delta_radius' = delta_radius
              ELSE arm'[k] = arm[k]]_vars

====
